---- MODULE Spec2Model ----
(***************************************************************************)
(* Tag translation and schema mapping of aws-helpers (crate aws_lib and    *)
(* its proc-macro crate aws_macros).                                       *)
(*                                                                         *)
(* Six specifications share the variables below:                           *)
(*   SpecCodec  one TagValue codec (bool, String, a transparent enum, a    *)
(*              transparent newtype, Timestamp, a structured type) applied *)
(*              to raw values and to typed values, and one Tag<T> over it; *)
(*   Spec       a struct under the #[Tags] attribute macro: its generated  *)
(*              from_values / from_tags / into_tags applied to tag lists   *)
(*              and to records;                                            *)
(*   SpecList   one TagList under push, extend, join and get;              *)
(*   SpecSvc    tags of a vendor SDK converted to RawTag and TagList;      *)
(*   SpecEip    one call of Eip::set_tags against EC2;                     *)
(*   SpecEfs    one call of find_efs against EFS.                          *)
(*                                                                         *)
(* Rust strings are TLA+ strings; Option and Result are tagged tuples.     *)
(***************************************************************************)
EXTENDS Integers, Sequences, FiniteSets, TLC

VARIABLES
    ty,      \* SpecCodec: the type T whose TagValue<T> impl is exercised
    val,     \* SpecCodec: the typed value last encoded (Option<T>)
    raw,     \* SpecCodec: the RawTagValue in hand (Option<RawTagValue>)
    res,     \* SpecCodec: the last decode result (Option<Result<T, ParseTagValueError>>)
    op,      \* SpecCodec: the last codec call made
    fields,  \* Spec: the named fields of the struct the #[Tags] macro is applied to
    tags,    \* Spec: the TagList handed to from_tags
    decoded, \* Spec: the result of from_tags(tags) (Option<Result<Self, ParseTagsError>>)
    self,    \* Spec: the record handed to into_tags (Option<Self>)
    encoded, \* Spec: the TagList returned by into_tags(self) (Option<TagList>)
    redecoded, \* Spec: the result of from_tags(encoded)
    tagKey,  \* SpecCodec: the key handed to the last Tag::new or Tag::parse
    typedTag, \* SpecCodec: the Tag<T> last built (Option<Result<Tag<T>, ParseTagValueError>>)
    rawtag,  \* SpecCodec: what RawTag::from(tag) gave (Option<Option<RawTag>>)
    tagList, \* SpecList: the TagList
    call,    \* SpecList: the last TagList call made
    before,  \* SpecList: the TagList as it was before the last call
    args,    \* SpecList: the entries the last call supplied
    initial, \* SpecList: the entries the TagList was built with
    supplied, \* SpecList: every entry supplied since, in call order
    asked,   \* SpecList: the key of the last get
    got,     \* SpecList: what the last get returned (Option<RawTag>)
    svc,     \* SpecSvc: the vendor SDK the tags come from
    awsTags, \* SpecSvc: the vendor tag list received
    awsTag,  \* SpecSvc: the vendor tag last converted on its own (Option)
    rawTagResult, \* SpecSvc: the result of RawTag::try_from(awsTag) (Option<Result>)
    tagListResult, \* SpecSvc: the result of TagList::try_from(awsTags) (Option<Result>)
    eipPc,   \* SpecEip: where Eip::set_tags stands
    eipTags, \* SpecEip: the tags EC2 holds for the address
    eipBefore, \* SpecEip: the tags EC2 held when set_tags was called
    eipArg,  \* SpecEip: the TagList handed to set_tags
    eipLog,  \* SpecEip: the requests sent and the responses received, in order
    eipResult, \* SpecEip: what set_tags returned (Option<Result<(), Error>>)
    fileSystems, \* SpecEfs: the file systems EFS holds in the client's region
    efsRegion, \* SpecEfs: client.region
    efsListed, \* SpecEfs: what describe_file_systems answered (Option<Result>)
    wanted,  \* SpecEfs: the RawTag handed to find_efs
    efsResult \* SpecEfs: what find_efs returned (Option<Result<Option<Efs>, Error>>)

vars == <<ty, val, raw, res, op, fields, tags, decoded, self, encoded, redecoded,
          tagKey, typedTag, rawtag, tagList, call, before, args, initial, supplied, asked, got,
          svc, awsTags, awsTag, rawTagResult, tagListResult,
          eipPc, eipTags, eipBefore, eipArg, eipLog, eipResult,
          fileSystems, efsRegion, efsListed, wanted, efsResult>>

codecVars == <<ty, val, raw, res, op, tagKey, typedTag, rawtag>>
recordVars == <<fields, tags, decoded, self, encoded, redecoded>>
listVars == <<tagList, call, before, args, initial, supplied, asked, got>>
svcVars == <<svc, awsTags, awsTag, rawTagResult, tagListResult>>
eipVars == <<eipPc, eipTags, eipBefore, eipArg, eipLog, eipResult>>
efsVars == <<fileSystems, efsRegion, efsListed, wanted, efsResult>>
awsVars == <<svcVars, eipVars, efsVars>>

----------------------------------------------------------------------------
(* Bounds of the model *)

\* largest number of variants of a generated transparent enum
MaxVariants == 2
\* largest number of fields of a generated #[Tags] struct
MaxFields == 2
\* largest number of entries pushed onto an input TagList
MaxLen == 2
\* largest number of entries of the TagList of SpecList
MaxList == 3
\* largest number of entries handed to one extend or join
MaxArgs == 2
\* largest number of entries handed to from_vec
MaxInitial == 1
\* largest number of tags in a vendor tag list
MaxAwsTags == 2
\* largest number of tags on the address and in the list handed to set_tags
MaxEipTags == 2
\* largest number of file systems EFS lists
MaxFileSystems == 2
\* largest number of tags on one file system
MaxEfsTags == 2

----------------------------------------------------------------------------
(* Option and Result *)

None == <<"None">>
Some(v) == <<"Some", v>>
IsSome(o) == o[1] = "Some"
Unwrap(o) == o[2]

Ok(v) == <<"Ok", v>>
Err(e) == <<"Err", e>>
IsOk(r) == r[1] = "Ok"
IsErr(r) == r[1] = "Err"

----------------------------------------------------------------------------
(* Errors: src/tags/error.rs *)

InvalidValue(value, message) == <<"InvalidValue", value, message>>
InvalidBoolValue(value) == <<"InvalidBoolValue", value>>

\* impl fmt::Display for ParseTagValueError (to_string)
Display(e) ==
    CASE e[1] = "InvalidBoolValue" -> "invalid tag bool value \"" \o e[2] \o "\""
      [] e[1] = "InvalidValue" -> "invalid tag value \"" \o e[2] \o "\": " \o e[3]

InvalidTagValue(key, inner) == <<"InvalidTagValue", key, inner>>
TagNotFound(key) == <<"TagNotFound", key>>
ParseTag(err) == <<"ParseTag", err>>

----------------------------------------------------------------------------
(* Types that implement TagValue *)

BoolTy == <<"bool">>
StringTy == <<"String">>
\* #[Tag(translate = transparent)] enum: variants is the list of
\* (variant ident, optional rename literal) that parse_transparent_enum collects
EnumTy(variants) == <<"enum", variants>>
\* #[Tag(translate = transparent)] struct Wrapper(inner)
NewtypeTy(inner) == <<"newtype", inner>>

Variant(ident, rename) == [ident |-> ident, rename |-> rename]

\* the test enum of tags/mod.rs: enum MyCoolioTag { A, #[tag(rename = "C")] B }
MyCoolioTag == EnumTy(<<Variant("A", None), Variant("B", Some("C"))>>)

TRUE_STR == "true"
FALSE_STR == "false"

\* a bool decoder that also takes other spellings of true
bool_try_from_lenient(value) ==
    CASE value \in {TRUE_STR, "True", "1"} -> Ok(TRUE)
      [] value = FALSE_STR -> Ok(FALSE)
      [] OTHER -> Err(InvalidBoolValue(value))

\* impl TryFrom<RawTagValue> for bool
bool_try_from(value) ==
    CASE value = TRUE_STR -> Ok(TRUE)
      [] value = FALSE_STR -> Ok(FALSE)
      [] OTHER -> Err(InvalidBoolValue(value))

\* impl From<bool> for RawTagValue
bool_into(value) == IF value THEN TRUE_STR ELSE FALSE_STR

\* impl From<RawTagValue> for String (impl_string_wrapper), taken as TryFrom
\* through the blanket impl: never fails
String_try_from(value) == Ok(value)

\* a String encoder that writes the string in quotes
String_into_quoted(value) == "\"" \o value \o "\""

\* impl From<String> for RawTagValue (impl_string_wrapper)
String_into(value) == value

\* a literal that ignores the rename attribute
lit_ident_only(variant) == variant.ident

\* the literal of one variant: its rename if given, its ident otherwise
lit(variant) ==
    IF IsSome(variant.rename) THEN Unwrap(variant.rename) ELSE variant.ident

ToUpper(s) == IF s = "a" THEN "A" ELSE s

\* an enum decoder that matches the literals without regard to case
enum_try_from_nocase(variants, value) ==
    LET hits == {i \in 1..Len(variants) : lit(variants[i]) = ToUpper(value)}
    IN  IF hits = {}
        THEN Err(InvalidValue(value, "invalid enum value"))
        ELSE Ok(variants[CHOOSE i \in hits : \A j \in hits : i <= j].ident)

\* generated impl TryFrom<RawTagValue> for a transparent enum: a match on
\* value.as_str() whose arms are the literals in declaration order, the
\* first matching arm wins
enum_try_from(variants, value) ==
    LET hits == {i \in 1..Len(variants) : lit(variants[i]) = value}
    IN  IF hits = {}
        THEN Err(InvalidValue(value, "invalid enum value"))
        ELSE Ok(variants[CHOOSE i \in hits : \A j \in hits : i <= j].ident)

\* an enum encoder that writes the variant's ident, renamed or not
enum_into_ident(variants, value) == value

\* generated impl From<#name> for RawTagValue of a transparent enum
enum_into(variants, value) ==
    lit(variants[CHOOSE i \in 1..Len(variants) : variants[i].ident = value])

RECURSIVE from_raw_tag(_, _)
RECURSIVE into_raw_tag(_, _)

\* a newtype decoder that wraps the raw string without the inner codec
newtype_try_from_unchecked(inner, value) == Ok(<<value>>)

\* generated impl TryFrom<RawTagValue> for a transparent newtype:
\* Ok(Self(<#ty as TagValue<#ty>>::from_raw_tag(value)?))
newtype_try_from(inner, value) ==
    LET r == from_raw_tag(inner, value)
    IN  IF IsOk(r) THEN Ok(<<r[2]>>) ELSE r

\* generated impl From<#name> for RawTagValue of a transparent newtype:
\* <#ty as TagValue<#ty>>::into_raw_tag(value.0)
newtype_into(inner, value) == into_raw_tag(inner, value[1])

\* #[Tag(translate = manual)] pub struct Timestamp(DateTime<Utc>) of lib.rs
TimestampTy == <<"Timestamp">>

\* the date-times of the model: the first and the last of each calendar field,
\* with and without a sub-second part
Years == {1999, 2024}
Months == {1, 12}
Days == {1, 31}
Hours == {0, 23}
Minutes == {0}
Seconds == {0, 59}
Nanos == {0, 500000000}

DateTimes ==
    [year : Years, month : Months, day : Days,
     hour : Hours, minute : Minutes, second : Seconds, nano : Nanos]

\* Timestamp::new
Timestamp_new(value) == <<value>>

Pad2(n) == IF n < 10 THEN "0" \o ToString(n) ELSE ToString(n)
Pad4(n) ==
    CASE n < 10 -> "000" \o ToString(n)
      [] n >= 10 /\ n < 100 -> "00" \o ToString(n)
      [] n >= 100 /\ n < 1000 -> "0" \o ToString(n)
      [] OTHER -> ToString(n)

\* DateTime::format("%Y-%m-%dT%H:%M:%S").to_string(): the pattern has no
\* sub-second item, the nanoseconds are not written
format(dt) ==
    Pad4(dt.year) \o "-" \o Pad2(dt.month) \o "-" \o Pad2(dt.day) \o "T"
        \o Pad2(dt.hour) \o ":" \o Pad2(dt.minute) \o ":" \o Pad2(dt.second)

\* the text of a chrono::ParseError, which the model does not tell apart
ParseErrorText == "input contains invalid characters"

\* chrono::NaiveDateTime::parse_from_str(value, "%Y-%m-%dT%H:%M:%S"): the
\* date-time of whole seconds that the pattern writes as value, an error for
\* any other text
parse_from_str(value) ==
    LET hits == {dt \in DateTimes : dt.nano = 0 /\ format(dt) = value}
    IN  IF hits = {}
        THEN Err(ParseErrorText)
        ELSE Ok(CHOOSE dt \in hits : TRUE)

\* impl TryFrom<RawTagValue> for Timestamp
Timestamp_try_from(value) ==
    LET r == parse_from_str(value)
    IN  IF IsOk(r)
        THEN Ok(Timestamp_new(r[2]))
        ELSE Err(InvalidValue(value, "failed parsing timestamp: " \o r[2]))

\* impl From<Timestamp> for RawTagValue
Timestamp_into(value) == format(value[1])

\* #[Tag(translate = serde)] struct MyStructTag { foo: String, bar: bool } of
\* the tests of tags/mod.rs
MyStructTag == <<"serde", "MyStructTag">>

MyStructTagValues == [foo : {"hi", ""}, bar : BOOLEAN]

\* serde_json::to_string of a MyStructTag: the fields in declaration order,
\* no white space (the strings of the model need no escaping)
serde_json_to_string(value) ==
    "{\"foo\":\"" \o value.foo \o "\",\"bar\":"
        \o (IF value.bar THEN "true" ELSE "false") \o "}"

\* the JSON texts of the model that serde_json reads as this MyStructTag: the
\* fields in either order, with or without white space
JsonTexts(value) ==
    LET bar == IF value.bar THEN "true" ELSE "false"
    IN  {"{\"foo\":\"" \o value.foo \o "\",\"bar\":" \o bar \o "}",
         "{\"bar\":" \o bar \o ",\"foo\":\"" \o value.foo \o "\"}",
         "{ \"foo\": \"" \o value.foo \o "\", \"bar\": " \o bar \o " }"}

\* the text of a serde_json::Error, which the model does not tell apart
SerdeErrorText == "expected value at line 1 column 1"

\* serde_json::from_str::<MyStructTag>(value)
serde_json_from_str(value) ==
    LET hits == {v \in MyStructTagValues : value \in JsonTexts(v)}
    IN  IF hits = {}
        THEN Err(SerdeErrorText)
        ELSE Ok(CHOOSE v \in hits : TRUE)

\* a structured decoder whose error carries the message in place of the value
TranslateSerde_from_raw_tag_no_value(t, value) ==
    LET r == serde_json_from_str(value)
    IN  IF IsOk(r) THEN r ELSE Err(InvalidValue(r[2], r[2]))

\* TranslateSerde::from_raw_tag
TranslateSerde_from_raw_tag(t, value) ==
    LET r == serde_json_from_str(value)
    IN  IF IsOk(r) THEN r ELSE Err(InvalidValue(value, r[2]))

\* TranslateSerde::into_raw_tag
TranslateSerde_into_raw_tag(t, value) == serde_json_to_string(value)

\* value.clone().try_into() of TranslateManual::from_raw_tag, by type
try_into(t, value) ==
    CASE t[1] = "bool" -> bool_try_from(value)
      [] t[1] = "String" -> String_try_from(value)
      [] t[1] = "enum" -> enum_try_from(t[2], value)
      [] t[1] = "newtype" -> newtype_try_from(t[2], value)
      [] t[1] = "Timestamp" -> Timestamp_try_from(value)

\* value.into() of TranslateManual::into_raw_tag, by type
into(t, value) ==
    CASE t[1] = "bool" -> bool_into(value)
      [] t[1] = "String" -> String_into(value)
      [] t[1] = "enum" -> enum_into(t[2], value)
      [] t[1] = "newtype" -> newtype_into(t[2], value)
      [] t[1] = "Timestamp" -> Timestamp_into(value)

\* TranslateManual::from_raw_tag: every error of the type's TryFrom is
\* rewrapped as InvalidValue
TranslateManual_from_raw_tag(t, value) ==
    LET r == try_into(t, value)
    IN  IF IsOk(r) THEN r ELSE Err(InvalidValue(value, Display(r[2])))

\* TranslateManual::into_raw_tag
TranslateManual_into_raw_tag(t, value) == into(t, value)

\* type Translator of the type's TagValue impl
Translator(t) == IF t[1] = "serde" THEN "TranslateSerde" ELSE "TranslateManual"

\* TagValue::from_raw_tag: the from_raw_tag of the type's Translator
from_raw_tag(t, value) ==
    IF Translator(t) = "TranslateSerde"
    THEN TranslateSerde_from_raw_tag(t, value)
    ELSE TranslateManual_from_raw_tag(t, value)

\* TagValue::into_raw_tag: the into_raw_tag of the type's Translator
into_raw_tag(t, value) ==
    IF Translator(t) = "TranslateSerde"
    THEN TranslateSerde_into_raw_tag(t, value)
    ELSE TranslateManual_into_raw_tag(t, value)

----------------------------------------------------------------------------
(* Raw and typed tags: src/tags/mod.rs *)

\* struct RawTag { key, value }
RawTag(key, value) == [key |-> key, value |-> value]

\* struct InnerTagValue<T>(T)
InnerTagValue(value) == <<value>>

\* Tag::new
Tag_new(key, value) == [key |-> key, value |-> InnerTagValue(value)]

\* a parse that reports every failure as a bool failure
Tag_parse_bool_error(t, key, value) ==
    LET r == from_raw_tag(t, value)
    IN  IF IsOk(r)
        THEN Ok([key |-> key, value |-> InnerTagValue(r[2])])
        ELSE Err(InvalidBoolValue(value))

\* Tag::parse: the ? returns the error of T's from_raw_tag as it is
Tag_parse(t, key, value) ==
    LET r == from_raw_tag(t, value)
    IN  IF IsOk(r)
        THEN Ok([key |-> key, value |-> InnerTagValue(r[2])])
        ELSE r

\* Tag::key and Tag::value: both borrow the tag
Tag_key(tag) == tag.key
Tag_value(tag) == tag.value[1]

\* what InnerTagValue<T> implements: its derives and its impl blocks
InnerTagValueImpls ==
    {"Debug", "PartialEq", "Eq", "From<T>", "Into<String>", "PartialEq<T>"}

\* what impl From<Tag<T>> for RawTag asks of InnerTagValue<T> in its where clause
RawTagFromTagBounds == {"fmt::Display", "Into<RawTagValue>"}

\* impl From<InnerTagValue<T>> for String: value.0.into().0
InnerTagValue_into(t, value) == into(t, value[1])

\* impl From<Tag<T>> for RawTag: the impl applies to the T whose InnerTagValue<T>
\* meets the where clause, and a call on any other T does not build (None)
RawTag_from_Tag(t, tag) ==
    IF RawTagFromTagBounds \subseteq InnerTagValueImpls
    THEN Some(RawTag(tag.key, InnerTagValue_into(t, tag.value)))
    ELSE None

----------------------------------------------------------------------------
(* The inputs of SpecCodec *)

VariantIdents == {"A", "B"}
Literals == {"A", "B", "C"}
Renames == {None} \cup {Some(l) : l \in Literals}

\* every fieldless enum of 1..MaxVariants variants with distinct idents
EnumDefs ==
    UNION {{vs \in [1..n -> [ident : VariantIdents, rename : Renames]] :
                \A i, j \in 1..n : vs[i].ident = vs[j].ident => i = j}
           : n \in 1..MaxVariants}

BaseTypes == {BoolTy, StringTy} \cup {EnumTy(vs) : vs \in EnumDefs}
Types == BaseTypes \cup {NewtypeTy(t) : t \in BaseTypes} \cup {TimestampTy, MyStructTag}

StringValues == {"test", "true", "A", "false", "say \"hi\""}
RawValues == {"true", "false", "True", "1", "", " true", "A", "B", "C", "a", "test"}

TimestampTexts ==
    {"2024-01-01T00:00:00", "2024-01-01T00:00:00.500", "2024-01-01 00:00:00",
     "2024-1-1T0:0:0"}
MyStructTagTexts ==
    {"{\"foo\":\"hi\",\"bar\":false}", "{\"bar\":true,\"foo\":\"hi\"}",
     "{\"foo\":\"hi\"}", "{\"foo\":\"hi\",\"bar\":\"no\"}", "not json"}

\* the raw values offered to the codec of type t
RawInputs(t) ==
    CASE t[1] = "Timestamp" -> RawValues \cup TimestampTexts
      [] t[1] = "serde" -> RawValues \cup MyStructTagTexts
      [] OTHER -> RawValues

RECURSIVE Values(_)
\* the values of type t
Values(t) ==
    CASE t[1] = "bool" -> BOOLEAN
      [] t[1] = "String" -> StringValues
      [] t[1] = "enum" -> {t[2][i].ident : i \in 1..Len(t[2])}
      [] t[1] = "newtype" -> {<<x>> : x \in Values(t[2])}
      [] t[1] = "Timestamp" -> {Timestamp_new(dt) : dt \in DateTimes}
      [] t[1] = "serde" -> MyStructTagValues

TagKeyNames == {"foo", "Name"}

----------------------------------------------------------------------------
(* SpecCodec: one codec at work *)

RecordIdle ==
    /\ fields = <<>>
    /\ tags = <<>>
    /\ decoded = None
    /\ self = None
    /\ encoded = None
    /\ redecoded = None

ListIdle ==
    /\ tagList = <<>>
    /\ call = "idle"
    /\ before = <<>>
    /\ args = <<>>
    /\ initial = <<>>
    /\ supplied = <<>>
    /\ asked = ""
    /\ got = None

SvcIdle ==
    /\ svc = "none"
    /\ awsTags = <<>>
    /\ awsTag = None
    /\ rawTagResult = None
    /\ tagListResult = None

EipIdle ==
    /\ eipPc = "idle"
    /\ eipTags = <<>>
    /\ eipBefore = <<>>
    /\ eipArg = <<>>
    /\ eipLog = <<>>
    /\ eipResult = None

EfsIdle ==
    /\ fileSystems = <<>>
    /\ efsRegion = "none"
    /\ efsListed = None
    /\ wanted = None
    /\ efsResult = None

AwsIdle == SvcIdle /\ EipIdle /\ EfsIdle

InitCodec ==
    /\ ty \in Types
    /\ val = None
    /\ raw = None
    /\ res = None
    /\ op = "new"
    /\ tagKey = ""
    /\ typedTag = None
    /\ rawtag = None
    /\ RecordIdle
    /\ ListIdle
    /\ AwsIdle

\* a raw value arrives from a tag
Receive(value) ==
    /\ raw' = Some(value)
    /\ val' = None
    /\ res' = None
    /\ op' = "receive"
    /\ tagKey' = ""
    /\ typedTag' = None
    /\ rawtag' = None
    /\ UNCHANGED <<ty, recordVars, listVars, awsVars>>

\* <T as TagValue<T>>::into_raw_tag(value)
IntoRawTag(value) ==
    /\ val' = Some(value)
    /\ raw' = Some(into_raw_tag(ty, value))
    /\ res' = None
    /\ op' = "into_raw_tag"
    /\ tagKey' = ""
    /\ typedTag' = None
    /\ rawtag' = None
    /\ UNCHANGED <<ty, recordVars, listVars, awsVars>>

\* <T as TagValue<T>>::from_raw_tag(raw) on the raw value in hand
FromRawTag ==
    /\ IsSome(raw)
    /\ res = None
    /\ res' = Some(from_raw_tag(ty, Unwrap(raw)))
    /\ op' = "from_raw_tag"
    /\ UNCHANGED <<ty, val, raw, tagKey, typedTag, rawtag, recordVars, listVars, awsVars>>

\* Tag::<T>::new(key, value)
TagNew(key, value) ==
    /\ tagKey' = key
    /\ typedTag' = Some(Ok(Tag_new(key, value)))
    /\ val' = Some(value)
    /\ raw' = None
    /\ res' = None
    /\ rawtag' = None
    /\ op' = "Tag::new"
    /\ UNCHANGED <<ty, recordVars, listVars, awsVars>>

\* Tag::<T>::parse(key, value)
TagParse(key, value) ==
    /\ tagKey' = key
    /\ typedTag' = Some(Tag_parse(ty, key, value))
    /\ val' = None
    /\ raw' = Some(value)
    /\ res' = None
    /\ rawtag' = None
    /\ op' = "Tag::parse"
    /\ UNCHANGED <<ty, recordVars, listVars, awsVars>>

\* RawTag::from(tag) on the tag in hand
RawTagFromTag ==
    /\ IsSome(typedTag)
    /\ IsOk(Unwrap(typedTag))
    /\ rawtag = None
    /\ rawtag' = Some(RawTag_from_Tag(ty, Unwrap(typedTag)[2]))
    /\ op' = "RawTag::from"
    /\ UNCHANGED <<ty, val, raw, res, tagKey, typedTag, recordVars, listVars, awsVars>>

NextCodec ==
    \/ \E value \in RawInputs(ty) : Receive(value)
    \/ \E value \in Values(ty) : IntoRawTag(value)
    \/ FromRawTag
    \/ \E key \in TagKeyNames, value \in Values(ty) : TagNew(key, value)
    \/ \E key \in TagKeyNames, value \in RawInputs(ty) : TagParse(key, value)
    \/ RawTagFromTag

SpecCodec == InitCodec /\ [][NextCodec]_vars

----------------------------------------------------------------------------
(* The #[Tags] attribute macro: aws_macros/src/tags.rs *)

\* a field type Option<T>
OptionTy(t) == <<"Option", t>>

\* a named field of the struct as written: its ident, its attributes (each a
\* #[tag(key = "...")], given by its key literal) and its type
Field(ident, attrs, type) == [ident |-> ident, attrs |-> attrs, ty |-> type]

\* parse_type: Option<T> is an optional element of type T, any other path
\* type a required one
parse_type(input) ==
    IF input[1] = "Option"
    THEN [ty |-> input[2], kind |-> "Optional"]
    ELSE [ty |-> input, kind |-> "Required"]

\* parse_field_attrs: the key literal of the single #[tag(key = "...")]
\* attribute, None without attributes (more than one attribute panics)
parse_field_attrs(attrs) ==
    IF Len(attrs) = 0 THEN None ELSE Some(attrs[1])

\* a parse_fields that names every element by the field's ident
parse_fields_ident_only(input) ==
    [i \in 1..Len(input) |->
        LET parsed == parse_type(input[i].ty)
        IN  [ident |-> input[i].ident,
             ty |-> parsed.ty,
             kind |-> parsed.kind,
             name |-> input[i].ident]]

\* parse_fields: one Element per field, named by its key attribute or, without
\* one, by the field's ident
parse_fields(input) ==
    [i \in 1..Len(input) |->
        LET parsed == parse_type(input[i].ty)
            name == parse_field_attrs(input[i].attrs)
        IN  [ident |-> input[i].ident,
             ty |-> parsed.ty,
             kind |-> parsed.kind,
             name |-> IF IsSome(name) THEN Unwrap(name) ELSE input[i].ident]]

\* a lookup that only looks at the head of the list
find_at_head(list, tag_name) ==
    IF Len(list) > 0 /\ list[1].key = tag_name
    THEN Some(list[1].value)
    ELSE None

\* a lookup that takes the last entry with the key
find_last(list, tag_name) ==
    LET hits == {i \in 1..Len(list) : list[i].key = tag_name}
    IN  IF hits = {}
        THEN None
        ELSE Some(list[CHOOSE i \in hits : \A j \in hits : j <= i].value)

\* tags.as_slice().iter().find(|tag| tag.key() == #tag_name)
\*     .map(|tag| tag.value()).cloned()
find(list, tag_name) ==
    LET hits == {i \in 1..Len(list) : list[i].key = tag_name}
    IN  IF hits = {}
        THEN None
        ELSE Some(list[CHOOSE i \in hits : \A j \in hits : i <= j].value)

\* try_convert: the field type's from_raw_tag, its error wrapped with the key
\* as ParseTagsError::ParseTag(ParseTagError::InvalidTagValue)
try_convert(t, key, value) ==
    LET r == from_raw_tag(t, value)
    IN  IF IsOk(r) THEN r ELSE Err(ParseTag(InvalidTagValue(key, r[2])))

\* a transformer that names the field, not its key, in TagNotFound
transformer_names_ident(element, key, value) ==
    IF element.kind = "Required"
    THEN IF IsSome(value)
         THEN try_convert(element.ty, key, Unwrap(value))
         ELSE Err(TagNotFound(element.ident))
    ELSE IF IsSome(value)
         THEN LET r == try_convert(element.ty, key, Unwrap(value))
              IN  IF IsOk(r) THEN Ok(Some(r[2])) ELSE r
         ELSE Ok(None)

\* a transformer that takes an optional field's undecodable value as absent
transformer_optional_lenient(element, key, value) ==
    IF element.kind = "Required"
    THEN IF IsSome(value)
         THEN try_convert(element.ty, key, Unwrap(value))
         ELSE Err(TagNotFound(key))
    ELSE IF IsSome(value)
         THEN LET r == try_convert(element.ty, key, Unwrap(value))
              IN  IF IsOk(r) THEN Ok(Some(r[2])) ELSE Ok(None)
         ELSE Ok(None)

\* transformer: what one field makes of the looked-up value
transformer(element, key, value) ==
    IF element.kind = "Required"
    THEN IF IsSome(value)
         THEN try_convert(element.ty, key, Unwrap(value))
         ELSE Err(TagNotFound(key))
    ELSE IF IsSome(value)
         THEN LET r == try_convert(element.ty, key, Unwrap(value))
              IN  IF IsOk(r) THEN Ok(Some(r[2])) ELSE r
         ELSE Ok(None)

\* a field initialiser that looks the field up by its ident, not by its key
from_tags_field_by_ident(element, list) ==
    transformer(element, element.name, find(list, element.ident))

\* a field initialiser that takes the first entry with the key that decodes
from_tags_field_first_decodable(element, list) ==
    LET hits == {i \in 1..Len(list) : list[i].key = element.name}
        good == {i \in hits : IsOk(from_raw_tag(element.ty, list[i].value))}
    IN  IF good = {}
        THEN transformer(element, element.name, find(list, element.name))
        ELSE transformer(element, element.name,
                 Some(list[CHOOSE i \in good : \A j \in good : i <= j].value))

\* from_tags_fields: the initialiser of one field in from_tags
from_tags_field(element, list) ==
    transformer(element, element.name, find(list, element.name))

RECURSIVE from_tags_from_last_error(_, _, _, _)
\* a from_tags that goes on after an error and reports the last one
from_tags_from_last_error(elements, list, i, done) ==
    IF i > Len(elements)
    THEN LET errs == {n \in 1..Len(done) : IsErr(done[n])}
         IN  IF errs = {}
             THEN Ok([n \in 1..Len(done) |-> done[n][2]])
             ELSE done[CHOOSE n \in errs : \A m \in errs : m <= n]
    ELSE from_tags_from_last_error(elements, list, i + 1,
             Append(done, from_tags_field(elements[i], list)))

RECURSIVE from_tags_from(_, _, _, _)
\* the struct literal of from_tags from field i on: the initialisers run in
\* declaration order and the first error returns from from_tags
from_tags_from(elements, list, i, done) ==
    IF i > Len(elements)
    THEN Ok(done)
    ELSE LET r == from_tags_field(elements[i], list)
         IN  IF IsErr(r)
             THEN r
             ELSE from_tags_from(elements, list, i + 1, Append(done, r[2]))

\* a from_tags that rejects an entry whose key is no field's key
from_tags_deny_unknown(elements, list) ==
    LET names == {elements[i].name : i \in 1..Len(elements)}
        unknown == {n \in 1..Len(list) : list[n].key \notin names}
    IN  IF unknown = {}
        THEN from_tags_from(elements, list, 1, <<>>)
        ELSE Err(TagNotFound(list[CHOOSE n \in unknown :
                                      \A m \in unknown : n <= m].key))

\* generated fn from_tags(tags: TagList) -> Result<Self, ParseTagsError>
from_tags(elements, list) == from_tags_from(elements, list, 1, <<>>)

\* a fields_to_tags that writes an empty value for an absent optional field
fields_to_tags_null_marker(element, value) ==
    IF element.kind = "Required"
    THEN <<RawTag(element.name, into_raw_tag(element.ty, value))>>
    ELSE IF IsSome(value)
         THEN <<RawTag(element.name, into_raw_tag(element.ty, Unwrap(value)))>>
         ELSE <<RawTag(element.name, "")>>

\* a fields_to_tags that keys the entry by the field's ident, not by its key
fields_to_tags_by_ident(element, value) ==
    IF element.kind = "Required"
    THEN <<RawTag(element.ident, into_raw_tag(element.ty, value))>>
    ELSE IF IsSome(value)
         THEN <<RawTag(element.ident, into_raw_tag(element.ty, Unwrap(value)))>>
         ELSE <<>>

\* fields_to_tags: what one field pushes onto the output vector
fields_to_tags(element, value) ==
    IF element.kind = "Required"
    THEN <<RawTag(element.name, into_raw_tag(element.ty, value))>>
    ELSE IF IsSome(value)
         THEN <<RawTag(element.name, into_raw_tag(element.ty, Unwrap(value)))>>
         ELSE <<>>

RECURSIVE into_tags_from_reversed(_, _, _, _)
\* an into_tags whose fields push to the front of the output vector
into_tags_from_reversed(elements, record, i, v) ==
    IF i > Len(elements)
    THEN v
    ELSE into_tags_from_reversed(elements, record, i + 1,
                                 fields_to_tags(elements[i], record[i]) \o v)

RECURSIVE into_tags_from_unique_keys(_, _, _, _)
\* an into_tags that keeps one entry per key, the first field's
into_tags_from_unique_keys(elements, record, i, v) ==
    IF i > Len(elements)
    THEN v
    ELSE into_tags_from_unique_keys(elements, record, i + 1,
             IF \E n \in 1..Len(v) : v[n].key = elements[i].name
             THEN v
             ELSE v \o fields_to_tags(elements[i], record[i]))

RECURSIVE into_tags_from(_, _, _, _)
\* the block of into_tags from field i on: the fields push in declaration order
into_tags_from(elements, record, i, v) ==
    IF i > Len(elements)
    THEN v
    ELSE into_tags_from(elements, record, i + 1,
                        v \o fields_to_tags(elements[i], record[i]))

\* generated fn into_tags(self) -> TagList
into_tags(elements, record) == into_tags_from(elements, record, 1, <<>>)

\* generated fn from_values(params) -> Self
from_values(params) == params

\* TagList::new
TagList_new == <<>>

\* TagList::from_vec
from_vec(value) == value

\* TagList::into_vec
into_vec(list) == list

\* TagList::push
push(list, tag) == Append(list, tag)

\* an extend that leaves out the entries whose key is already in the list
extend_unique(list, entries) ==
    list \o SelectSeq(entries, LAMBDA e : \A n \in 1..Len(list) : list[n].key /= e.key)

\* TagList::extend
extend(list, entries) == list \o entries

\* TagList::join
join(list, other) == list \o into_vec(other)

\* a get that returns the last entry with the key
get_last(list, key) ==
    LET hits == {i \in 1..Len(list) : list[i].key = key}
    IN  IF hits = {}
        THEN None
        ELSE Some(list[CHOOSE i \in hits : \A j \in hits : j <= i])

\* TagList::get: self.0.iter().find(|tag| tag.key == key)
get(list, key) ==
    LET hits == {i \in 1..Len(list) : list[i].key = key}
    IN  IF hits = {}
        THEN None
        ELSE Some(list[CHOOSE i \in hits : \A j \in hits : i <= j])

----------------------------------------------------------------------------
(* The inputs of Spec *)

\* enum { A, #[tag(rename = "A")] B }: two variants with one literal
CollidingTag == EnumTy(<<Variant("A", None), Variant("B", Some("A"))>>)

FieldTypes == {StringTy, BoolTy, CollidingTag}
FieldIdents == [i \in 1..(MaxFields + 1) |->
                   CASE i = 1 -> "tag1" [] i = 2 -> "tag2" [] i = 3 -> "tag3"
                     [] OTHER -> "tag4"]
KeyAttrs == {<<>>, <<"myname">>}

\* every struct of up to MaxFields fields: field i is named FieldIdents[i]
Structs ==
    UNION {{[i \in 1..n |-> Field(FieldIdents[i], shape[i].attrs, shape[i].ty)] :
                shape \in [1..n -> [attrs : KeyAttrs,
                                    ty : FieldTypes \cup
                                         {OptionTy(t) : t \in FieldTypes}]]}
           : n \in 0..MaxFields}

\* the end-to-end example: struct { #[tag(key = "Name")] name: String,
\* #[tag(key = "Active")] active: bool, #[tag(key = "Note")] note: Option<String> }
ExampleStruct ==
    <<Field("name", <<"Name">>, StringTy),
      Field("active", <<"Active">>, BoolTy),
      Field("note", <<"Note">>, OptionTy(StringTy))>>

\* the structured fields of the attribute-macro test of tags/mod.rs:
\* struct { tag8: MyStructTag, tag9: Option<MyStructTag> }
SerdeStruct ==
    <<Field("tag8", <<>>, MyStructTag),
      Field("tag9", <<>>, OptionTy(MyStructTag))>>

TagKeys == {"tag1", "myname"}
TagValues == {"true", "A", "B"}

\* the raw tags offered to a struct
InputTags(struct) ==
    IF struct = ExampleStruct
    THEN {RawTag("Name", "server1"), RawTag("Active", "true"), RawTag("Active", "yes")}
    ELSE IF struct = SerdeStruct
    THEN {RawTag("tag8", "{\"foo\":\"hi\",\"bar\":false}"),
          RawTag("tag8", "{\"foo\":\"hi\"}"),
          RawTag("tag9", "{\"bar\":true,\"foo\":\"hi\"}"),
          RawTag("tag9", "not json")}
    ELSE {RawTag(k, v) : k \in TagKeys, v \in TagValues}

\* the values a field of this element can hold
FieldValues(element) ==
    IF element.kind = "Required"
    THEN Values(element.ty)
    ELSE {None} \cup {Some(v) : v \in Values(element.ty)}

RECURSIVE ParamsFrom(_, _)
\* every choice of values for the fields from field i on
ParamsFrom(elements, i) ==
    IF i > Len(elements)
    THEN {<<>>}
    ELSE {<<v>> \o rest : v \in FieldValues(elements[i]),
                          rest \in ParamsFrom(elements, i + 1)}

\* every parameter list from_values accepts
Params(elements) == ParamsFrom(elements, 1)

----------------------------------------------------------------------------
(* Spec: one #[Tags] struct at work *)

CodecIdle ==
    /\ ty = StringTy
    /\ val = None
    /\ raw = None
    /\ res = None
    /\ op = "idle"
    /\ tagKey = ""
    /\ typedTag = None
    /\ rawtag = None

Init ==
    /\ fields \in Structs \cup {ExampleStruct, SerdeStruct}
    /\ tags = <<>>
    /\ decoded = None
    /\ self = None
    /\ encoded = None
    /\ redecoded = None
    /\ CodecIdle
    /\ ListIdle
    /\ AwsIdle

\* tags.push(tag) on the input list, before it is handed to from_tags
Push(tag) ==
    /\ decoded = None
    /\ self = None
    /\ Len(tags) < MaxLen
    /\ tags' = push(tags, tag)
    /\ UNCHANGED <<fields, decoded, self, encoded, redecoded, codecVars, listVars, awsVars>>

\* Self::from_tags(tags); on Ok the caller holds the record
FromTags ==
    /\ decoded = None
    /\ self = None
    /\ decoded' = Some(from_tags(parse_fields(fields), tags))
    /\ self' = IF IsOk(Unwrap(decoded')) THEN Some(Unwrap(decoded')[2]) ELSE None
    /\ UNCHANGED <<fields, tags, encoded, redecoded, codecVars, listVars, awsVars>>

\* Self::from_values(params)
FromValues(params) ==
    /\ decoded = None
    /\ self = None
    /\ tags = <<>>
    /\ self' = Some(from_values(params))
    /\ UNCHANGED <<fields, tags, decoded, encoded, redecoded, codecVars, listVars, awsVars>>

\* self.into_tags()
IntoTags ==
    /\ IsSome(self)
    /\ encoded = None
    /\ encoded' = Some(into_tags(parse_fields(fields), Unwrap(self)))
    /\ UNCHANGED <<fields, tags, decoded, self, redecoded, codecVars, listVars, awsVars>>

\* Self::from_tags on the list into_tags returned
FromTagsEncoded ==
    /\ IsSome(encoded)
    /\ redecoded = None
    /\ redecoded' = Some(from_tags(parse_fields(fields), Unwrap(encoded)))
    /\ UNCHANGED <<fields, tags, decoded, self, encoded, codecVars, listVars, awsVars>>

Next ==
    \/ \E tag \in InputTags(fields) : Push(tag)
    \/ FromTags
    \/ \E params \in Params(parse_fields(fields)) : FromValues(params)
    \/ IntoTags
    \/ FromTagsEncoded

Spec == Init /\ [][Next]_vars

----------------------------------------------------------------------------
(* SpecList: one TagList at work *)

\* the keys differ in case only
ListKeys == {"Name", "name"}
ListValues == {"a", "b"}
ListEntries == {RawTag(k, v) : k \in ListKeys, v \in ListValues}
AskedKeys == ListKeys \cup {"NAME"}

\* every vector of up to n entries
Vectors(n) == UNION {[1..m -> ListEntries] : m \in 0..n}

InitList ==
    /\ \/ /\ tagList = TagList_new
          /\ call = "new"
       \/ /\ \E value \in Vectors(MaxInitial) : tagList = from_vec(value)
          /\ call = "from_vec"
    /\ initial = tagList
    /\ supplied = <<>>
    /\ before = <<>>
    /\ args = <<>>
    /\ asked = ""
    /\ got = None
    /\ CodecIdle
    /\ RecordIdle
    /\ AwsIdle

\* list.push(tag)
ListPush(tag) ==
    /\ Len(tagList) < MaxList
    /\ tagList' = push(tagList, tag)
    /\ call' = "push"
    /\ before' = tagList
    /\ args' = <<tag>>
    /\ supplied' = supplied \o <<tag>>
    /\ UNCHANGED <<initial, asked, got, codecVars, recordVars, awsVars>>

\* list.extend(entries)
ListExtend(entries) ==
    /\ Len(tagList) + Len(entries) <= MaxList
    /\ tagList' = extend(tagList, entries)
    /\ call' = "extend"
    /\ before' = tagList
    /\ args' = entries
    /\ supplied' = supplied \o entries
    /\ UNCHANGED <<initial, asked, got, codecVars, recordVars, awsVars>>

\* list.join(other)
ListJoin(other) ==
    /\ Len(tagList) + Len(other) <= MaxList
    /\ tagList' = join(tagList, other)
    /\ call' = "join"
    /\ before' = tagList
    /\ args' = into_vec(other)
    /\ supplied' = supplied \o into_vec(other)
    /\ UNCHANGED <<initial, asked, got, codecVars, recordVars, awsVars>>

\* list.get(key): get borrows the list
ListGet(key) ==
    /\ got' = get(tagList, key)
    /\ asked' = key
    /\ call' = "get"
    /\ before' = tagList
    /\ args' = <<>>
    /\ UNCHANGED <<tagList, initial, supplied, codecVars, recordVars, awsVars>>

NextList ==
    \/ \E tag \in ListEntries : ListPush(tag)
    \/ \E entries \in Vectors(MaxArgs) : ListExtend(entries)
    \/ \E other \in {from_vec(value) : value \in Vectors(MaxArgs)} : ListJoin(other)
    \/ \E key \in AskedKeys : ListGet(key)

SpecList == InitList /\ [][NextList]_vars

----------------------------------------------------------------------------
(* Vendor SDK tags: src/tags/svc.rs *)

\* aws_sdk_ec2::types::Tag and aws_sdk_cloudformation::types::Tag hold an
\* Option<String> key and value, aws_sdk_efs::types::Tag holds two Strings
AwsTag(key, value) == [key |-> key, value |-> value]

AwsKeyNone == <<"AwsKeyNone">>
AwsValueNone(key) == <<"AwsValueNone", key>>
\* ParseTagError::Aws, by impl From<ParseTagAwsError> for ParseTagError
Aws(inner) == <<"Aws", inner>>

\* a conversion that takes a missing value as the empty string
ec2_RawTag_try_from_empty_value(awstag) ==
    IF awstag.key = None
    THEN Err(Aws(AwsKeyNone))
    ELSE IF awstag.value = None
         THEN Ok(RawTag(Unwrap(awstag.key), ""))
         ELSE Ok(RawTag(Unwrap(awstag.key), Unwrap(awstag.value)))

\* impl TryFrom<aws_sdk_ec2::types::Tag> for RawTag
ec2_RawTag_try_from(awstag) ==
    IF awstag.key = None
    THEN Err(Aws(AwsKeyNone))
    ELSE IF awstag.value = None
         THEN Err(Aws(AwsValueNone(Unwrap(awstag.key))))
         ELSE Ok(RawTag(Unwrap(awstag.key), Unwrap(awstag.value)))

\* impl TryFrom<aws_sdk_cloudformation::types::Tag> for RawTag
cloudformation_RawTag_try_from(awstag) ==
    IF awstag.key = None
    THEN Err(Aws(AwsKeyNone))
    ELSE IF awstag.value = None
         THEN Err(Aws(AwsValueNone(Unwrap(awstag.key))))
         ELSE Ok(RawTag(Unwrap(awstag.key), Unwrap(awstag.value)))

\* impl TryFrom<aws_sdk_efs::types::Tag> for RawTag
efs_RawTag_try_from(awstag) == Ok(RawTag(awstag.key, awstag.value))

\* RawTag::try_from of the vendor's tag type
RawTag_try_from(vendor, awstag) ==
    CASE vendor = "ec2" -> ec2_RawTag_try_from(awstag)
      [] vendor = "cloudformation" -> cloudformation_RawTag_try_from(awstag)
      [] vendor = "efs" -> efs_RawTag_try_from(awstag)

\* a collect that leaves out the elements that failed
collect_skipping(results) ==
    Ok(SelectSeq([i \in 1..Len(results) |-> results[i][2]],
                 LAMBDA x : \E i \in 1..Len(results) : results[i] = Ok(x)))

\* .collect::<Result<Vec<_>, ParseTagError>>(): the Ok values in order, or the
\* first Err in order
collect(results) ==
    LET errs == {i \in 1..Len(results) : IsErr(results[i])}
    IN  IF errs = {}
        THEN Ok([i \in 1..Len(results) |-> results[i][2]])
        ELSE results[CHOOSE i \in errs : \A j \in errs : i <= j]

\* impl TryFrom<Vec<vendor Tag>> for TagList: the ? turns the ParseTagError
\* into ParseTagsError::ParseTag
TagList_try_from(vendor, awslist) ==
    LET r == collect([i \in 1..Len(awslist) |-> RawTag_try_from(vendor, awslist[i])])
    IN  IF IsOk(r) THEN Ok(from_vec(r[2])) ELSE Err(ParseTag(r[2]))

----------------------------------------------------------------------------
(* SpecSvc: vendor tags converted *)

Vendors == {"ec2", "cloudformation", "efs"}
AwsKeys == {"Name", "env"}
AwsValues == {"a", ""}

\* the tags a vendor SDK can hand over
AwsTagsOf(vendor) ==
    IF vendor = "efs"
    THEN {AwsTag(k, v) : k \in AwsKeys, v \in AwsValues}
    ELSE {AwsTag(k, v) : k \in {None} \cup {Some(x) : x \in AwsKeys},
                         v \in {None} \cup {Some(x) : x \in AwsValues}}

InitSvc ==
    /\ svc \in Vendors
    /\ awsTags = <<>>
    /\ awsTag = None
    /\ rawTagResult = None
    /\ tagListResult = None
    /\ EipIdle
    /\ EfsIdle
    /\ CodecIdle
    /\ RecordIdle
    /\ ListIdle

\* the SDK response holds one more tag
AwsReceive(awstag) ==
    /\ tagListResult = None
    /\ Len(awsTags) < MaxAwsTags
    /\ awsTags' = Append(awsTags, awstag)
    /\ UNCHANGED <<svc, awsTag, rawTagResult, tagListResult,
                   eipVars, efsVars, codecVars, recordVars, listVars>>

\* RawTag::try_from(awstag)
ConvertTag(awstag) ==
    /\ awsTag' = Some(awstag)
    /\ rawTagResult' = Some(RawTag_try_from(svc, awstag))
    /\ UNCHANGED <<svc, awsTags, tagListResult,
                   eipVars, efsVars, codecVars, recordVars, listVars>>

\* TagList::try_from(awsTags)
ConvertList ==
    /\ tagListResult = None
    /\ tagListResult' = Some(TagList_try_from(svc, awsTags))
    /\ UNCHANGED <<svc, awsTags, awsTag, rawTagResult,
                   eipVars, efsVars, codecVars, recordVars, listVars>>

NextSvc ==
    \/ \E awstag \in AwsTagsOf(svc) : AwsReceive(awstag)
    \/ \E awstag \in AwsTagsOf(svc) : ConvertTag(awstag)
    \/ ConvertList

SpecSvc == InitSvc /\ [][NextSvc]_vars

----------------------------------------------------------------------------
(* Eip::set_tags: src/lib.rs *)

\* impl From<RawTag> for aws_sdk_ec2::types::Tag
ec2_Tag_from(tag) == AwsTag(Some(tag.key), Some(tag.value))

\* impl From<TagList> for Vec<aws_sdk_ec2::types::Tag>
Vec_ec2_Tag_from(list) == [i \in 1..Len(list) |-> ec2_Tag_from(list[i])]

\* Error::SdkError, by impl From<SdkError<T>> for Error: the error of a request
SdkError(request) == <<"SdkError", request>>

\* the () of Ok(())
Unit == <<"()">>

\* what the delete_tags request of set_tags does on EC2: it names the resource
\* and no tag, so every tag of the resource is removed
delete_tags(resource) == <<>>

\* what the create_tags request of set_tags does on EC2: each tag of the
\* request is added, or overwrites the resource's tag with its key
create_tags(resource, request) ==
    LET last == {n \in 1..Len(request) :
                    \A m \in (n + 1)..Len(request) : request[m].key /= request[n].key}
    IN  SelectSeq(resource,
                  LAMBDA t : \A n \in 1..Len(request) : request[n].key /= t.key)
        \o [k \in 1..Cardinality(last) |->
               request[CHOOSE n \in last : Cardinality({m \in last : m <= n}) = k]]

\* a set_tags that goes on to create_tags whatever delete_tags answered
set_tags_resume_ignoring_delete(pc, response) ==
    IF pc = "delete_tags"
    THEN [pc |-> "create_tags", send |-> <<"create_tags">>, result |-> None]
    ELSE IF IsOk(response)
         THEN [pc |-> "returned", send |-> <<>>, result |-> Some(Ok(Unit))]
         ELSE [pc |-> "returned", send |-> <<>>, result |-> Some(Err(response[2]))]

\* set_tags from the .await it stands at to the next .await or to its return:
\* the ? after each .await returns the request's error, after delete_tags the
\* create_tags request is built and sent, after create_tags comes Ok(())
set_tags_resume(pc, response) ==
    IF pc = "delete_tags"
    THEN IF IsOk(response)
         THEN [pc |-> "create_tags", send |-> <<"create_tags">>, result |-> None]
         ELSE [pc |-> "returned", send |-> <<>>, result |-> Some(Err(response[2]))]
    ELSE IF IsOk(response)
         THEN [pc |-> "returned", send |-> <<>>, result |-> Some(Ok(Unit))]
         ELSE [pc |-> "returned", send |-> <<>>, result |-> Some(Err(response[2]))]

----------------------------------------------------------------------------
(* SpecEip: one call of Eip::set_tags *)

EipKeys == {"Name", "env"}
EipValues == {"a", "b"}

\* every TagList of up to n entries
EipTagLists(n) ==
    UNION {[1..m -> {RawTag(k, v) : k \in EipKeys, v \in EipValues}] : m \in 0..n}

\* the tags an address can hold: no two under one key
EipResourceTags ==
    {Vec_ec2_Tag_from(list) :
        list \in {l \in EipTagLists(MaxEipTags) :
                     \A m, n \in 1..Len(l) : l[m].key = l[n].key => m = n}}

\* the events of the log
Sent(request) == <<"send", request>>
Answered(request, response) ==
    <<IF IsOk(response) THEN "ok" ELSE "err", request>>

InitEip ==
    /\ eipPc = "idle"
    /\ eipTags \in EipResourceTags
    /\ eipBefore = <<>>
    /\ eipArg = <<>>
    /\ eipLog = <<>>
    /\ eipResult = None
    /\ SvcIdle
    /\ EfsIdle
    /\ CodecIdle
    /\ RecordIdle
    /\ ListIdle

\* eip.set_tags(client, tags) up to its first .await: delete_tags is sent
SetTags(list) ==
    /\ eipPc = "idle"
    /\ eipArg' = list
    /\ eipBefore' = eipTags
    /\ eipPc' = "delete_tags"
    /\ eipLog' = Append(eipLog, Sent("delete_tags"))
    /\ UNCHANGED <<eipTags, eipResult,
                   svcVars, efsVars, codecVars, recordVars, listVars>>

\* the response to the request set_tags waits for arrives and set_tags runs
\* on to its next .await or to its return
Resume(response) ==
    LET next == set_tags_resume(eipPc, response)
    IN  /\ eipPc' = next.pc
        /\ eipResult' = next.result
        /\ eipLog' = eipLog \o <<Answered(eipPc, response)>>
                            \o [n \in 1..Len(next.send) |-> Sent(next.send[n])]
        /\ UNCHANGED <<eipBefore, eipArg,
                       svcVars, efsVars, codecVars, recordVars, listVars>>

\* EC2 carries out delete_tags and answers
DeleteTagsSucceeds ==
    /\ eipPc = "delete_tags"
    /\ eipTags' = delete_tags(eipTags)
    /\ Resume(Ok(Unit))

\* delete_tags fails
DeleteTagsFails ==
    /\ eipPc = "delete_tags"
    /\ eipTags' = eipTags
    /\ Resume(Err(SdkError("delete_tags")))

\* EC2 carries out create_tags and answers
CreateTagsSucceeds ==
    /\ eipPc = "create_tags"
    /\ eipTags' = create_tags(eipTags, Vec_ec2_Tag_from(eipArg))
    /\ Resume(Ok(Unit))

\* create_tags fails
CreateTagsFails ==
    /\ eipPc = "create_tags"
    /\ eipTags' = eipTags
    /\ Resume(Err(SdkError("create_tags")))

NextEip ==
    \/ \E list \in EipTagLists(MaxEipTags) : SetTags(list)
    \/ DeleteTagsSucceeds
    \/ DeleteTagsFails
    \/ CreateTagsSucceeds
    \/ CreateTagsFails

SpecEip == InitEip /\ [][NextEip]_vars

----------------------------------------------------------------------------
(* find_efs: src/lib.rs *)

\* impl PartialEq<aws_sdk_efs::types::Tag> for RawTag
RawTag_eq(tag, awstag) == tag.key = awstag.key /\ tag.value = awstag.value

\* impl PartialEq<RawTag> for aws_sdk_efs::types::Tag: other.eq(self)
efs_Tag_eq(awstag, tag) == RawTag_eq(tag, awstag)

\* aws_sdk_efs::types::FileSystemDescription, as far as find_efs reads it
FileSystemDescription(file_system_id, awslist) ==
    [file_system_id |-> file_system_id, tags |-> awslist]

EfsId(id) == <<"EfsId", id>>
Efs(id, region) == [id |-> id, region |-> region]

\* impl TryFrom<(FileSystemDescription, Region)> for Efs
Efs_try_from(efs, region) == Ok(Efs(EfsId(efs.file_system_id), region))

MultipleMatches(entity) == <<"MultipleMatches", entity>>

\* Vec::pop
pop(v) == IF Len(v) = 0 THEN None ELSE Some(v[Len(v)])

\* .filter(|fs| fs.tags.iter().any(|t| t == tag))
filter_by_tag(items, tag) ==
    SelectSeq(items, LAMBDA fs : \E n \in 1..Len(fs.tags) : efs_Tag_eq(fs.tags[n], tag))

\* a find_efs that settles for the last of several matches
find_efs_last_match(listing, region, tag) ==
    IF IsErr(listing)
    THEN listing
    ELSE LET matching == filter_by_tag(listing[2], tag)
             found == collect([i \in 1..Len(matching) |->
                                  Efs_try_from(matching[i], region)])
         IN  IF IsErr(found)
             THEN found
             ELSE IF Len(found[2]) = 0
                  THEN Ok(None)
                  ELSE Ok(pop(found[2]))

\* find_efs(client, tag), given what describe_file_systems answered
find_efs(listing, region, tag) ==
    IF IsErr(listing)
    THEN listing
    ELSE LET matching == filter_by_tag(listing[2], tag)
             found == collect([i \in 1..Len(matching) |->
                                  Efs_try_from(matching[i], region)])
         IN  IF IsErr(found)
             THEN found
             ELSE LET len == Len(found[2])
                      popped == pop(found[2])
                  IN  IF len = 0
                      THEN Ok(None)
                      ELSE IF len = 1 /\ IsSome(popped)
                           THEN Ok(Some(Unwrap(popped)))
                           ELSE Err(MultipleMatches("efs"))

----------------------------------------------------------------------------
(* SpecEfs: one call of find_efs *)

Regions == {"EuCentral1", "UsEast1"}
EfsTags == {AwsTag("Name", "a"), AwsTag("Name", "b"), AwsTag("env", "a")}
WantedTags == {RawTag("Name", "a"), RawTag("env", "a"), RawTag("env", "b")}
FileSystemIds == [n \in 1..(MaxFileSystems + 1) |->
                     CASE n = 1 -> "fs-1" [] n = 2 -> "fs-2" [] n = 3 -> "fs-3"
                       [] OTHER -> "fs-4"]

\* the tag lists a file system can hold
EfsTagLists == UNION {[1..m -> EfsTags] : m \in 0..MaxEfsTags}

InitEfs ==
    /\ fileSystems = <<>>
    /\ efsRegion \in Regions
    /\ efsListed = None
    /\ wanted \in {Some(t) : t \in WantedTags}
    /\ efsResult = None
    /\ SvcIdle
    /\ EipIdle
    /\ CodecIdle
    /\ RecordIdle
    /\ ListIdle

\* EFS holds one more file system
CreateFileSystem(awslist) ==
    /\ efsListed = None
    /\ Len(fileSystems) < MaxFileSystems
    /\ fileSystems' = Append(fileSystems,
           FileSystemDescription(FileSystemIds[Len(fileSystems) + 1], awslist))
    /\ UNCHANGED <<efsRegion, efsListed, wanted, efsResult,
                   svcVars, eipVars, codecVars, recordVars, listVars>>

\* find_efs(client, tag) with every page of describe_file_systems collected
FindEfs ==
    /\ efsListed = None
    /\ efsListed' = Some(Ok(fileSystems))
    /\ efsResult' = Some(find_efs(Ok(fileSystems), efsRegion, Unwrap(wanted)))
    /\ UNCHANGED <<fileSystems, efsRegion, wanted,
                   svcVars, eipVars, codecVars, recordVars, listVars>>

\* find_efs(client, tag) with describe_file_systems failing
FindEfsListingFails ==
    /\ efsListed = None
    /\ efsListed' = Some(Err(SdkError("describe_file_systems")))
    /\ efsResult' = Some(find_efs(Unwrap(efsListed'), efsRegion, Unwrap(wanted)))
    /\ UNCHANGED <<fileSystems, efsRegion, wanted,
                   svcVars, eipVars, codecVars, recordVars, listVars>>

NextEfs ==
    \/ \E awslist \in EfsTagLists : CreateFileSystem(awslist)
    \/ FindEfs
    \/ FindEfsListingFails

SpecEfs == InitEfs /\ [][NextEfs]_vars

----------------------------------------------------------------------------
(* Claims about one codec (SpecCodec) *)

Encoding == op = "into_raw_tag"
Decoding == op = "from_raw_tag"

\* C5: the bool codec encodes true as "true" and false as "false", decodes
\* "true" to Ok(true) and "false" to Ok(false), and decodes no other string
\* (matching is case-sensitive).
C5_BoolCodecExact ==
    ty = BoolTy =>
        /\ (Encoding /\ val = Some(TRUE)) => raw = Some("true")
        /\ (Encoding /\ val = Some(FALSE)) => raw = Some("false")
        /\ (Decoding /\ raw = Some("true")) => res = Some(Ok(TRUE))
        /\ (Decoding /\ raw = Some("false")) => res = Some(Ok(FALSE))
        /\ (Decoding /\ Unwrap(raw) \notin {"true", "false"}) => IsErr(Unwrap(res))

\* a bool decode of "True" (wrong case) has failed
C5_Witness ==
    /\ ty = BoolTy
    /\ Decoding
    /\ raw = Some("True")
    /\ IsErr(Unwrap(res))

\* C6: decoding any string other than "true" or "false" through
\* TagValue::from_raw_tag for bool fails with InvalidBoolValue carrying the
\* offending raw value.
C6_BoolDecodeFailureKind ==
    (ty = BoolTy /\ Decoding /\ Unwrap(raw) \notin {"true", "false"}) =>
        res = Some(Err(InvalidBoolValue(Unwrap(raw))))

\* the literals a transparent enum registers
Registered(variants) == {lit(variants[i]) : i \in 1..Len(variants)}
Renamed(variant) == IsSome(variant.rename)

\* C7 as stated: every variant encodes to its rename literal if one is given
\* and to its variant name otherwise, and the original name of a renamed
\* variant is not accepted on decode (a rename to the variant's own name is
\* not counted as a rename here).
C7_RenamedNameRejected ==
    ty[1] = "enum" =>
        \A i \in 1..Len(ty[2]) :
            /\ (Encoding /\ val = Some(ty[2][i].ident)) =>
                   raw = Some(IF Renamed(ty[2][i])
                              THEN Unwrap(ty[2][i].rename)
                              ELSE ty[2][i].ident)
            /\ (/\ Decoding
                /\ Renamed(ty[2][i])
                /\ Unwrap(ty[2][i].rename) /= ty[2][i].ident
                /\ raw = Some(ty[2][i].ident)) =>
                   IsErr(Unwrap(res))

\* C7 (amended): for enum {A, B renamed "C"}: encode(A) = "A", encode(B) = "C",
\* decode("A") = Ok(A), decode("C") = Ok(B), decode("B") fails; in general
\* every variant encodes to its rename literal if one is given and to its
\* variant name otherwise, and the original name of a renamed variant is not
\* accepted on decode unless it is the literal of some variant of the enum.
C7_EnumMapping ==
    /\ ty = MyCoolioTag =>
        /\ (Encoding /\ val = Some("A")) => raw = Some("A")
        /\ (Encoding /\ val = Some("B")) => raw = Some("C")
        /\ (Decoding /\ raw = Some("A")) => res = Some(Ok("A"))
        /\ (Decoding /\ raw = Some("C")) => res = Some(Ok("B"))
        /\ (Decoding /\ raw = Some("B")) => IsErr(Unwrap(res))
    /\ ty[1] = "enum" =>
        \A i \in 1..Len(ty[2]) :
            /\ (Encoding /\ val = Some(ty[2][i].ident)) =>
                   raw = Some(IF Renamed(ty[2][i])
                              THEN Unwrap(ty[2][i].rename)
                              ELSE ty[2][i].ident)
            /\ (/\ Decoding
                /\ Renamed(ty[2][i])
                /\ raw = Some(ty[2][i].ident)
                /\ \A j \in 1..Len(ty[2]) :
                       ty[2][i].ident /=
                           (IF Renamed(ty[2][j])
                            THEN Unwrap(ty[2][j].rename)
                            ELSE ty[2][j].ident)) =>
                   IsErr(Unwrap(res))

\* the old name "B" of the renamed variant of MyCoolioTag has been refused
C7_Witness ==
    /\ ty = MyCoolioTag
    /\ Decoding
    /\ raw = Some("B")
    /\ IsErr(Unwrap(res))

\* C8: decoding through a transparent enum is case-sensitive, and every raw
\* string that is not one of the registered literals gives InvalidValue
\* carrying that raw string unchanged and a message that ends with
\* "invalid enum value".
C8_EnumDecodeFailure ==
    (ty[1] = "enum" /\ Decoding /\ Unwrap(raw) \notin Registered(ty[2])) =>
        res = Some(Err(InvalidValue(Unwrap(raw),
                  "invalid tag value \"" \o Unwrap(raw) \o "\": invalid enum value")))

\* "a" has been refused by an enum that registers "A"
C8_Witness ==
    /\ ty[1] = "enum"
    /\ "A" \in Registered(ty[2])
    /\ Decoding
    /\ raw = Some("a")
    /\ IsErr(Unwrap(res))
    /\ Unwrap(res)[2][2] = "a"

\* C9: for Wrapper(Inner) under translate = transparent, encode(Wrapper(x))
\* is Inner's encode(x), decode(s) is Ok(Wrapper(y)) exactly when Inner's
\* decode(s) is Ok(y), and decode(s) fails exactly when Inner's decode(s)
\* fails; Wrapper(String) encodes Wrapper("test") as "test" and decodes
\* "test" to Wrapper("test").
C9_NewtypeTransparent ==
    ty[1] = "newtype" =>
        /\ Encoding => raw = Some(into_raw_tag(ty[2], Unwrap(val)[1]))
        /\ Decoding =>
              LET inner == from_raw_tag(ty[2], Unwrap(raw))
              IN  /\ IsOk(inner) <=> IsOk(Unwrap(res))
                  /\ IsOk(inner) => res = Some(Ok(<<inner[2]>>))
                  /\ IsErr(inner) <=> IsErr(Unwrap(res))
        /\ (ty[2] = StringTy /\ Encoding /\ val = Some(<<"test">>)) =>
              raw = Some("test")
        /\ (ty[2] = StringTy /\ Decoding /\ raw = Some("test")) =>
              res = Some(Ok(<<"test">>))

\* a wrapper over bool has refused a raw value that bool refuses
C9_Witness ==
    /\ ty = NewtypeTy(BoolTy)
    /\ Decoding
    /\ raw = Some("test")
    /\ IsErr(Unwrap(res))

\* the literals of the enum are pairwise distinct
DistinctLiterals(variants) ==
    \A i, j \in 1..Len(variants) : lit(variants[i]) = lit(variants[j]) => i = j

\* bool, String, or a transparent enum with pairwise distinct literals
Scalar(t) ==
    \/ t = BoolTy
    \/ t = StringTy
    \/ t[1] = "enum" /\ DistinctLiterals(t[2])

\* the value in hand was encoded and the encoding then decoded
RoundTripped == Decoding /\ IsSome(val)

\* C11: for bool, String, a transparent enum whose literals are pairwise
\* distinct and a newtype over one of these, decoding the encoding of a value
\* gives Ok of that value
C11_ScalarRoundTrip ==
    (RoundTripped /\ (Scalar(ty) \/ (ty[1] = "newtype" /\ Scalar(ty[2])))) =>
        res = Some(Ok(Unwrap(val)))

\* a newtype over the renamed test enum went through "C" and came back
C11_Witness ==
    /\ ty = NewtypeTy(MyCoolioTag)
    /\ RoundTripped
    /\ val = Some(<<"B">>)
    /\ raw = Some("C")
    /\ res = Some(Ok(<<"B">>))

\* C12: for every Timestamp built with Timestamp::new, with or without a
\* sub-second part, decoding its encoding gives Ok of that Timestamp
C12_TimestampRoundTrip ==
    (ty = TimestampTy /\ RoundTripped) => res = Some(Ok(Unwrap(val)))

\* what the code does instead: the round trip gives the Timestamp cut to whole
\* seconds
TimestampRoundTripTruncates ==
    (ty = TimestampTy /\ RoundTripped) =>
        res = Some(Ok(Timestamp_new([Unwrap(val)[1] EXCEPT !.nano = 0])))

\* C19: Tag::parse(key, raw) is Ok exactly when T's from_raw_tag decodes raw;
\* the tag then equals Tag::new(key, decoded value) and key() and value(),
\* which borrow the tag, give the key and the decoded value; when from_raw_tag
\* fails, parse fails with the same error. Tag::new(key, v) holds v as it is
C19_TagParse ==
    /\ op = "Tag::parse" =>
          LET r == from_raw_tag(ty, Unwrap(raw))
              parsed == Unwrap(typedTag)
          IN  /\ IsOk(parsed) <=> IsOk(r)
              /\ IsOk(r) =>
                    /\ parsed = Ok(Tag_new(tagKey, r[2]))
                    /\ Tag_key(parsed[2]) = tagKey
                    /\ Tag_value(parsed[2]) = r[2]
              /\ IsErr(r) => parsed = r
    /\ op = "Tag::new" =>
          /\ IsOk(Unwrap(typedTag))
          /\ Tag_key(Unwrap(typedTag)[2]) = tagKey
          /\ Tag_value(Unwrap(typedTag)[2]) = Unwrap(val)

\* the test use_tag_directly: Tag::<bool>::parse("foo", "true") is the tag
\* Tag::<bool>::new("foo", true)
C19_Witness ==
    /\ ty = BoolTy
    /\ op = "Tag::parse"
    /\ tagKey = "foo"
    /\ raw = Some("true")
    /\ typedTag = Some(Ok(Tag_new("foo", TRUE)))

\* a parse that fails hands on the codec's error
C19_WitnessFailure ==
    /\ ty = MyCoolioTag
    /\ op = "Tag::parse"
    /\ raw = Some("B")
    /\ typedTag = Some(Err(InvalidValue("B", "invalid tag value \"B\": invalid enum value")))

\* C20: RawTag::from(tag) is there for every T with a codec, keeps the key
\* and has T's encoding of the held value as its value
C20_TagIntoRawTag ==
    op = "RawTag::from" =>
        LET held == Unwrap(typedTag)[2]
        IN  rawtag = Some(Some(RawTag(Tag_key(held),
                                      into_raw_tag(ty, Tag_value(held)))))

\* what the code does instead: no T meets the where clause of the impl, so
\* RawTag::from(tag) builds for no Tag<T>
RawTagFromTagNeverApplies ==
    op = "RawTag::from" => rawtag = Some(None)

\* C21: the String codec writes a string as the identical raw value, without
\* quotes or escapes, reads every raw value as the identical String and never
\* fails; "false" stays the string "false" both ways
C21_StringAsIs ==
    ty = StringTy =>
        /\ Encoding => raw = val
        /\ Decoding => res = Some(Ok(Unwrap(raw)))
        /\ (Encoding /\ val = Some("false")) => raw = Some("false")
        /\ (Decoding /\ raw = Some("false")) => res = Some(Ok("false"))

\* the string "false" was written as "false" and read back as the string
C21_Witness ==
    /\ ty = StringTy
    /\ RoundTripped
    /\ val = Some("false")
    /\ raw = Some("false")
    /\ res = Some(Ok("false"))

\* a string with quotes in it is written as it is
C21_WitnessQuotes ==
    /\ ty = StringTy
    /\ Encoding
    /\ val = Some("say \"hi\"")
    /\ raw = Some("say \"hi\"")

----------------------------------------------------------------------------
(* Claims about one #[Tags] struct (Spec) *)

NumFields == Len(fields)
FieldIndexes == 1..NumFields

\* the schema as the struct declares it
IsRequired(i) == fields[i].ty[1] /= "Option"
IsOptional(i) == fields[i].ty[1] = "Option"
TypeOf(i) == IF IsOptional(i) THEN fields[i].ty[2] ELSE fields[i].ty
KeyOf(i) == IF fields[i].attrs = <<>> THEN fields[i].ident ELSE fields[i].attrs[1]

DistinctFieldKeys == \A i, j \in FieldIndexes : KeyOf(i) = KeyOf(j) => i = j
KeyIsShared(i) == \E j \in FieldIndexes : j /= i /\ KeyOf(j) = KeyOf(i)

\* decode(encode(v)) = Ok(v) for every value of the type
RoundTrips(t) == \A v \in Values(t) : from_raw_tag(t, into_raw_tag(t, v)) = Ok(v)

HasKey(list, key) == \E n \in 1..Len(list) : list[n].key = key
DistinctListKeys(list) ==
    \A m, n \in 1..Len(list) : list[m].key = list[n].key => m = n
FirstValue(list, key) ==
    list[CHOOSE n \in 1..Len(list) :
            /\ list[n].key = key
            /\ \A m \in 1..(n - 1) : list[m].key /= key].value

\* field i fails on this list: a required field without an entry, or a field
\* whose first entry does not decode
FieldFails(list, i) ==
    IF HasKey(list, KeyOf(i))
    THEN IsErr(from_raw_tag(TypeOf(i), FirstValue(list, KeyOf(i))))
    ELSE IsRequired(i)

\* the record-level error of a failing field i
FieldError(list, i) ==
    IF HasKey(list, KeyOf(i))
    THEN ParseTag(InvalidTagValue(KeyOf(i),
             from_raw_tag(TypeOf(i), FirstValue(list, KeyOf(i)))[2]))
    ELSE TagNotFound(KeyOf(i))

\* the same entries in every order
Reorderings(list) ==
    {[n \in 1..Len(list) |-> list[f[n]]] : f \in Permutations(1..Len(list))}

\* C1: when no two fields share a tag key and every field codec round-trips,
\* from_tags(into_tags(r)) = Ok(r) for every record r of the schema.
C1_RecordRoundTrip ==
    (/\ IsSome(redecoded)
     /\ DistinctFieldKeys
     /\ \A i \in FieldIndexes : RoundTrips(TypeOf(i))) =>
        redecoded = Some(Ok(Unwrap(self)))

\* a record built by from_values, with two fields under distinct keys, one of
\* them an optional field that is Some, has come back from its own tags
C1_Witness ==
    /\ IsSome(redecoded)
    /\ decoded = None
    /\ NumFields = 2
    /\ DistinctFieldKeys
    /\ \A i \in FieldIndexes : RoundTrips(TypeOf(i))
    /\ \E i \in FieldIndexes : IsOptional(i) /\ IsSome(Unwrap(self)[i])
    /\ redecoded = Some(Ok(Unwrap(self)))

\* C2 as stated: whenever the list has no entry under the key of a required
\* field f, from_tags fails with TagNotFound of exactly f's key, whatever the
\* other fields' entries are.
C2_AbsenceAlwaysNamesField ==
    IsSome(decoded) =>
        \A i \in FieldIndexes :
            (IsRequired(i) /\ ~HasKey(tags, KeyOf(i))) =>
                decoded = Some(Err(TagNotFound(KeyOf(i))))

\* C2 (amended): whenever the list has no entry under the key of a required
\* field f, from_tags fails; the error is TagNotFound of exactly f's key when
\* no field declared before f fails, whatever the entries of the fields
\* declared after f are.
C2_RequiredAbsence ==
    IsSome(decoded) =>
        \A i \in FieldIndexes :
            (IsRequired(i) /\ ~HasKey(tags, KeyOf(i))) =>
                /\ IsErr(Unwrap(decoded))
                /\ (\A j \in 1..(i - 1) : ~FieldFails(tags, j)) =>
                       decoded = Some(Err(TagNotFound(KeyOf(i))))

\* the first field is required and missing, the second field's entry is
\* present and does not decode: the error names the first field's key
C2_Witness ==
    /\ IsSome(decoded)
    /\ NumFields = 2
    /\ IsRequired(1)
    /\ ~HasKey(tags, KeyOf(1))
    /\ HasKey(tags, KeyOf(2))
    /\ FieldFails(tags, 2)
    /\ decoded = Some(Err(TagNotFound(KeyOf(1))))

\* the result fail-fast decoding gives: the error of the first field, in
\* declaration order, that fails
FirstFailure(list) ==
    LET failing == {i \in FieldIndexes : FieldFails(list, i)}
    IN  IF failing = {}
        THEN None
        ELSE Some(FieldError(list, CHOOSE i \in failing : \A j \in failing : i <= j))

ReportsFirstFailure ==
    IsSome(decoded) =>
        IF FirstFailure(tags) = None
        THEN IsOk(Unwrap(decoded))
        ELSE decoded = Some(Err(Unwrap(FirstFailure(tags))))

SameOutcome(r1, r2) == (IsErr(r1) \/ IsErr(r2)) => r1 = r2

\* C3 as stated: from_tags returns the error of the first field in
\* declaration order that fails (a missing required key or a decode failure),
\* and the position of the entries in the input list does not affect which
\* error is reported.
C3_PositionNeverMatters ==
    /\ ReportsFirstFailure
    /\ IsSome(decoded) =>
           \A list \in Reorderings(tags) :
               SameOutcome(from_tags(parse_fields(fields), list), Unwrap(decoded))

\* C3 (amended): from_tags returns exactly one error, the error of the first
\* field in declaration order that fails (a missing required key or a decode
\* failure), so with two required fields missing only the first one's key is
\* reported; the position of the entries in the input list does not affect
\* which error is reported when no two entries of the list share a key.
C3_FailFast ==
    /\ ReportsFirstFailure
    /\ (IsSome(decoded) /\ DistinctListKeys(tags)) =>
           \A list \in Reorderings(tags) :
               SameOutcome(from_tags(parse_fields(fields), list), Unwrap(decoded))

\* both fields fail, the second field's entry stands first in the list, and
\* the error is the first field's decode failure
C3_Witness ==
    /\ IsSome(decoded)
    /\ NumFields = 2
    /\ Len(tags) = 2
    /\ tags[1].key = KeyOf(2)
    /\ tags[2].key = KeyOf(1)
    /\ KeyOf(1) /= KeyOf(2)
    /\ FieldFails(tags, 1)
    /\ FieldFails(tags, 2)
    /\ decoded = Some(Err(FieldError(tags, 1)))

\* two required fields are missing and only the first one's key is reported
C3_WitnessBothMissing ==
    /\ IsSome(decoded)
    /\ NumFields = 2
    /\ IsRequired(1) /\ IsRequired(2)
    /\ ~HasKey(tags, KeyOf(1)) /\ ~HasKey(tags, KeyOf(2))
    /\ KeyOf(1) /= KeyOf(2)
    /\ decoded = Some(Err(TagNotFound(KeyOf(1))))

\* a list without the key of optional field i does not fail because of i
AbsentOptionalNeverFails ==
    IsSome(decoded) =>
        \A i \in FieldIndexes :
            (/\ IsOptional(i)
             /\ ~HasKey(tags, KeyOf(i))
             /\ \A j \in FieldIndexes \ {i} : ~FieldFails(tags, j)) =>
                /\ IsOk(Unwrap(decoded))
                /\ Unwrap(decoded)[2][i] = None

\* C4 as stated: for every record whose optional field f is None, into_tags
\* gives a list with no entry under f's key and from_tags of that list gives
\* f = None again; a list without an optional field's key never makes
\* from_tags fail because of that field.
C4_OmissionInEverySchema ==
    /\ IsSome(encoded) =>
           \A i \in FieldIndexes :
               (IsOptional(i) /\ Unwrap(self)[i] = None) =>
                   /\ ~HasKey(Unwrap(encoded), KeyOf(i))
                   /\ IsSome(redecoded) =>
                          /\ IsOk(Unwrap(redecoded))
                          /\ Unwrap(redecoded)[2][i] = None
    /\ AbsentOptionalNeverFails

\* C4 (amended): for every record whose optional field f is None, and when no
\* other field of the schema is bound to f's tag key, into_tags gives a list
\* with no entry under f's key and from_tags of that list gives f = None
\* again unless another field fails on it; a list without an optional
\* field's key never makes from_tags fail because of that field.
C4_OptionalOmission ==
    /\ IsSome(encoded) =>
           \A i \in FieldIndexes :
               (IsOptional(i) /\ Unwrap(self)[i] = None /\ ~KeyIsShared(i)) =>
                   /\ ~HasKey(Unwrap(encoded), KeyOf(i))
                   /\ (/\ IsSome(redecoded)
                       /\ \A j \in FieldIndexes \ {i} :
                              ~FieldFails(Unwrap(encoded), j)) =>
                          /\ IsOk(Unwrap(redecoded))
                          /\ Unwrap(redecoded)[2][i] = None
    /\ AbsentOptionalNeverFails

\* a record with an absent optional field beside a present field has been
\* encoded without that key and decoded to None again
C4_Witness ==
    /\ IsSome(redecoded)
    /\ NumFields = 2
    /\ DistinctFieldKeys
    /\ \E i \in FieldIndexes :
           /\ IsOptional(i)
           /\ Unwrap(self)[i] = None
           /\ ~HasKey(Unwrap(encoded), KeyOf(i))
           /\ Len(Unwrap(encoded)) = 1
           /\ IsOk(Unwrap(redecoded))
           /\ Unwrap(redecoded)[2][i] = None

\* the first field bound to a key
FieldOfKey(key) ==
    CHOOSE i \in FieldIndexes :
        KeyOf(i) = key /\ \A j \in 1..(i - 1) : KeyOf(j) /= key

\* the list holds only keys of the schema, at most one entry per key, the
\* entries in the order of their fields, every value the encoding of what it
\* decodes to
CanonicalList(list) ==
    /\ \A n \in 1..Len(list) : \E i \in FieldIndexes : KeyOf(i) = list[n].key
    /\ DistinctListKeys(list)
    /\ \A m, n \in 1..Len(list) :
           m < n => FieldOfKey(list[m].key) < FieldOfKey(list[n].key)
    /\ \A n \in 1..Len(list) :
           LET t == TypeOf(FieldOfKey(list[n].key))
               r == from_raw_tag(t, list[n].value)
           IN  IsOk(r) /\ into_raw_tag(t, r[2]) = list[n].value

\* C10 as stated: for every list that holds only keys of the schema, at most
\* one entry per key, the entries in schema order and canonical values,
\* from_tags succeeds and into_tags of the result is the input list.
C10_EveryCanonicalListDecodes ==
    (IsSome(decoded) /\ CanonicalList(tags)) =>
        /\ IsOk(Unwrap(decoded))
        /\ IsSome(encoded) => encoded = Some(tags)

\* C10 (amended): for every schema whose fields have pairwise distinct keys
\* and every list that holds an entry for every required field, only keys of
\* the schema, at most one entry per key, the entries in schema order and
\* canonical values, from_tags succeeds and into_tags of the result is the
\* input list; Name/Active/Note with [("Name","server1"),("Active","true")]
\* decodes to {server1, true, None} and encodes to the same two entries.
C10_DecodeThenEncode ==
    /\ (/\ IsSome(decoded)
        /\ CanonicalList(tags)
        /\ DistinctFieldKeys
        /\ \A i \in FieldIndexes : IsRequired(i) => HasKey(tags, KeyOf(i))) =>
           /\ IsOk(Unwrap(decoded))
           /\ IsSome(encoded) => encoded = Some(tags)
    /\ (/\ fields = ExampleStruct
        /\ tags = <<RawTag("Name", "server1"), RawTag("Active", "true")>>) =>
           /\ IsSome(decoded) => decoded = Some(Ok(<<"server1", TRUE, None>>))
           /\ IsSome(encoded) =>
                  encoded = Some(<<RawTag("Name", "server1"), RawTag("Active", "true")>>)

\* the example list has been decoded and encoded again
C10_Witness ==
    /\ fields = ExampleStruct
    /\ tags = <<RawTag("Name", "server1"), RawTag("Active", "true")>>
    /\ decoded = Some(Ok(<<"server1", TRUE, None>>))
    /\ encoded = Some(tags)

\* texts that are not a MyStructTag in JSON: a field is missing, a field has
\* the wrong type, the text is no JSON at all
MalformedTexts == {"{\"foo\":\"hi\"}", "{\"foo\":\"hi\",\"bar\":\"no\"}", "not json"}

\* field i is structured and the list holds a malformed text for it
MalformedFor(list, i) ==
    /\ TypeOf(i) = MyStructTag
    /\ HasKey(list, KeyOf(i))
    /\ FirstValue(list, KeyOf(i)) \in MalformedTexts

\* no field declared before field i fails on the list
ReachesField(list, i) == \A j \in 1..(i - 1) : ~FieldFails(list, j)

\* C13: a raw value that is not JSON text of the field's structured type makes
\* from_tags fail without a record; the structured codec's error is an
\* InvalidValue that carries exactly the raw string, and from_tags reports it
\* under the field's key
C13_StructuredDecodeFailure ==
    \A i \in FieldIndexes :
        (IsSome(decoded) /\ MalformedFor(tags, i)) =>
            /\ IsErr(Unwrap(decoded))
            /\ self = None
            /\ ReachesField(tags, i) =>
                  LET e == Unwrap(decoded)[2]
                  IN  /\ e[1] = "ParseTag"
                      /\ e[2][1] = "InvalidTagValue"
                      /\ e[2][2] = KeyOf(i)
                      /\ e[2][3][1] = "InvalidValue"
                      /\ e[2][3][2] = FirstValue(tags, KeyOf(i))

\* tag8 arrives without its field bar
C13_Witness ==
    /\ fields = SerdeStruct
    /\ tags = <<RawTag("tag8", "{\"foo\":\"hi\"}")>>
    /\ decoded = Some(Err(ParseTag(InvalidTagValue("tag8",
                     InvalidValue("{\"foo\":\"hi\"}", SerdeErrorText)))))
    /\ self = None

\* the fields of the record that hold a value: the required ones and the
\* optional ones that are Some
Written(record) == {i \in FieldIndexes : IsRequired(i) \/ IsSome(record[i])}

\* the value field i of the record holds
ValueOf(record, i) == IF IsRequired(i) THEN record[i] ELSE Unwrap(record[i])

\* the place of field i among the fields that hold a value
Rank(record, i) == Cardinality({j \in Written(record) : j <= i})

\* C14: into_tags is defined on every record and returns a list with one
\* entry per required field and per optional field that is Some, none for an
\* optional field that is None, each entry made of the field's key and the
\* encoding of the field's value, the entries in the order of the fields
C14_IntoTagsTotalOrdered ==
    /\ (IsSome(self) /\ encoded = None) => ENABLED IntoTags
    /\ IsSome(encoded) =>
          LET record == Unwrap(self)
              out == Unwrap(encoded)
          IN  /\ Len(out) = Cardinality(Written(record))
              /\ \A i \in Written(record) :
                    out[Rank(record, i)] =
                        RawTag(KeyOf(i), into_raw_tag(TypeOf(i), ValueOf(record, i)))

\* the example record without its note: two entries, Name before Active
C14_Witness ==
    /\ fields = ExampleStruct
    /\ self = Some(<<"test", TRUE, None>>)
    /\ encoded = Some(<<RawTag("Name", "test"), RawTag("Active", "true")>>)

\* the key of field i is in the list and the value looked up for it does not
\* decode
PresentInvalid(list, i) ==
    /\ HasKey(list, KeyOf(i))
    /\ IsErr(from_raw_tag(TypeOf(i), FirstValue(list, KeyOf(i))))

\* the result is ParseTag(InvalidTagValue) under the key of field i with a
\* value error that carries the raw value looked up for it
NamesInvalidValue(result, list, i) ==
    /\ IsErr(result)
    /\ result[2][1] = "ParseTag"
    /\ result[2][2][1] = "InvalidTagValue"
    /\ result[2][2][2] = KeyOf(i)
    /\ result[2][2][3][2] = FirstValue(list, KeyOf(i))

\* C15 as stated: a field whose key is present with a value that does not
\* decode makes from_tags fail with ParseTag(InvalidTagValue) under that
\* field's key, whatever the other fields do
C15_PresentInvalidAlwaysNamed ==
    \A i \in FieldIndexes :
        (IsSome(decoded) /\ PresentInvalid(tags, i)) =>
            NamesInvalidValue(Unwrap(decoded), tags, i)

\* C15: a field, required or optional, whose key is present with a value
\* that does not decode makes from_tags fail; when no field declared before
\* it fails, the failure is ParseTag(InvalidTagValue) under that field's key
\* with a value error that carries the raw value, and an optional field is
\* never taken as None
C15_PresentInvalid ==
    \A i \in FieldIndexes :
        (IsSome(decoded) /\ PresentInvalid(tags, i)) =>
            /\ IsErr(Unwrap(decoded))
            /\ self = None
            /\ ReachesField(tags, i) => NamesInvalidValue(Unwrap(decoded), tags, i)

\* an optional bool field whose key is present with "A"
C15_Witness ==
    /\ fields = <<Field("tag1", <<>>, OptionTy(BoolTy))>>
    /\ tags = <<RawTag("tag1", "A")>>
    /\ decoded = Some(Err(ParseTag(InvalidTagValue("tag1",
                     InvalidValue("A", "invalid tag bool value \"A\"")))))

\* every required field's key is in the list and every field whose key is in
\* the list has a looked-up value that decodes
AllFieldsDecode(list) ==
    /\ \A i \in FieldIndexes : IsRequired(i) => HasKey(list, KeyOf(i))
    /\ \A i \in FieldIndexes :
          HasKey(list, KeyOf(i)) =>
              IsOk(from_raw_tag(TypeOf(i), FirstValue(list, KeyOf(i))))

\* what field i of a record decoded from the list holds
DecodedField(list, i) ==
    IF HasKey(list, KeyOf(i))
    THEN LET v == from_raw_tag(TypeOf(i), FirstValue(list, KeyOf(i)))[2]
         IN  IF IsRequired(i) THEN v ELSE Some(v)
    ELSE None

\* C16: from_tags returns Ok exactly when every required field's key is in
\* the list and every looked-up value of a field whose key is in the list
\* decodes; the Ok record has every field filled from the list, and any other
\* outcome is a TagNotFound or ParseTag error without a record
C16_NoSilentRecovery ==
    IsSome(decoded) =>
        LET result == Unwrap(decoded)
        IN  /\ IsOk(result) <=> AllFieldsDecode(tags)
            /\ IsOk(result) =>
                  /\ self = Some(result[2])
                  /\ Len(result[2]) = NumFields
                  /\ \A i \in FieldIndexes : result[2][i] = DecodedField(tags, i)
            /\ ~IsOk(result) =>
                  /\ IsErr(result)
                  /\ result[2][1] \in {"TagNotFound", "ParseTag"}
                  /\ self = None

\* the example struct with Active = "yes": an error and no record
C16_Witness ==
    /\ fields = ExampleStruct
    /\ tags = <<RawTag("Name", "server1"), RawTag("Active", "yes")>>
    /\ decoded = Some(Err(ParseTag(InvalidTagValue("Active",
                     InvalidValue("yes", "invalid tag bool value \"yes\"")))))
    /\ self = None

\* field i has no #[tag(key = ...)] attribute
Unattributed(i) == fields[i].attrs = <<>>

\* field i is read from and written to the key k: a decoded record holds for
\* it what the first entry under k decodes to (None without such an entry), a
\* required field without an entry under k is reported missing under k, and
\* the entry into_tags writes for it is keyed k
BoundTo(i, k) ==
    /\ (IsSome(decoded) /\ IsOk(Unwrap(decoded))) =>
          Unwrap(decoded)[2][i] =
              IF HasKey(tags, k)
              THEN LET v == from_raw_tag(TypeOf(i), FirstValue(tags, k))[2]
                   IN  IF IsRequired(i) THEN v ELSE Some(v)
              ELSE None
    /\ (IsSome(decoded) /\ ReachesField(tags, i) /\ IsRequired(i) /\ ~HasKey(tags, k)) =>
          decoded = Some(Err(TagNotFound(k)))
    /\ (IsSome(encoded) /\ i \in Written(Unwrap(self))) =>
          Unwrap(encoded)[Rank(Unwrap(self), i)].key = k

\* C22: a field without a key attribute is read from and written to the key
\* that is the field's name; a field with #[tag(key = "k")] is read from and
\* written to "k" only, whatever the list holds under the field's name
C22_FieldKeyBinding ==
    \A i \in FieldIndexes :
        /\ Unattributed(i) => BoundTo(i, fields[i].ident)
        /\ ~Unattributed(i) => BoundTo(i, fields[i].attrs[1])

\* tag1 is bound to "myname": the entry keyed "tag1" is not used for it
C22_Witness ==
    /\ fields = <<Field("tag1", <<"myname">>, OptionTy(StringTy))>>
    /\ tags = <<RawTag("tag1", "A")>>
    /\ decoded = Some(Ok(<<None>>))

\* C24: two lists that hold the same entries, with pairwise distinct keys, in
\* different orders give the same from_tags result, the same record or the
\* same error
C24_OrderIndependence ==
    (IsSome(decoded) /\ DistinctListKeys(tags)) =>
        \A list \in Reorderings(tags) :
            from_tags(parse_fields(fields), list) = Unwrap(decoded)

\* the example struct decoded from its entries in the reverse of field order
C24_Witness ==
    /\ fields = ExampleStruct
    /\ tags = <<RawTag("Active", "true"), RawTag("Name", "server1")>>
    /\ decoded = Some(Ok(<<"server1", TRUE, None>>))

\* the places of the entries that are the first with their key
FirstPlaces(list) ==
    {n \in 1..Len(list) : \A m \in 1..(n - 1) : list[m].key /= list[n].key}

\* the list without the entries that follow an entry with the same key
FirstEntries(list) ==
    LET kept == FirstPlaces(list)
    IN  [k \in 1..Cardinality(kept) |->
            list[CHOOSE n \in kept : Cardinality({m \in kept : m <= n}) = k]]

\* C25: with several entries under a field's key, from_tags decodes the field
\* from the first of them, the entry TagList::get returns for the key, and
\* the later ones never change the result: the result is that of the list
\* without them, also when the first entry does not decode and a later would
C25_FirstEntryDecides ==
    IsSome(decoded) =>
        LET result == Unwrap(decoded)
        IN  /\ result = from_tags(parse_fields(fields), FirstEntries(tags))
            /\ \A i \in FieldIndexes :
                  HasKey(tags, KeyOf(i)) =>
                      LET first == Unwrap(get(tags, KeyOf(i)))
                          r == from_raw_tag(TypeOf(i), first.value)
                      IN  /\ first = tags[CHOOSE n \in FirstPlaces(tags) :
                                              tags[n].key = KeyOf(i)]
                          /\ IsOk(result) =>
                                /\ IsOk(r)
                                /\ result[2][i] = IF IsRequired(i)
                                                  THEN r[2]
                                                  ELSE Some(r[2])
                          /\ (IsErr(r) /\ ReachesField(tags, i)) =>
                                result = Err(ParseTag(InvalidTagValue(
                                                 KeyOf(i), r[2])))

\* a bool field decoded from "A" followed by "true" under its key
C25_Witness ==
    /\ fields = <<Field("tag1", <<>>, BoolTy)>>
    /\ tags = <<RawTag("tag1", "A"), RawTag("tag1", "true")>>
    /\ decoded = Some(Err(ParseTag(InvalidTagValue("tag1",
                     InvalidValue("A", "invalid tag bool value \"A\"")))))

\* a string field decoded from "A" followed by "B" under its key
C25_WitnessFirstValue ==
    /\ fields = <<Field("tag1", <<>>, StringTy)>>
    /\ tags = <<RawTag("tag1", "A"), RawTag("tag1", "B")>>
    /\ decoded = Some(Ok(<<"A">>))

\* the tag keys of the schema
SchemaKeys == {KeyOf(i) : i \in FieldIndexes}

\* the places of the entries whose key is no field's key
UnknownPlaces(list) == {n \in 1..Len(list) : list[n].key \notin SchemaKeys}

\* the list without the entries whose key is no field's key
KnownEntries(list) ==
    LET kept == (1..Len(list)) \ UnknownPlaces(list)
    IN  [k \in 1..Cardinality(kept) |->
            list[CHOOSE n \in kept : Cardinality({m \in kept : m <= n}) = k]]

\* C26: entries whose keys belong to no field do not change the result of
\* from_tags, record or error, and into_tags of the decoded record has only
\* keys of the schema, so none of those entries is in the re-encoded list
C26_UnknownTagsIgnored ==
    IsSome(decoded) =>
        LET result == Unwrap(decoded)
        IN  /\ result = from_tags(parse_fields(fields), KnownEntries(tags))
            /\ IsOk(result) =>
                  LET out == into_tags(parse_fields(fields), result[2])
                  IN  /\ \A n \in 1..Len(out) : out[n].key \in SchemaKeys
                      /\ \A u \in UnknownPlaces(tags) :
                            \A n \in 1..Len(out) : out[n] /= tags[u]
                      /\ IsSome(encoded) => Unwrap(encoded) = out

\* a record of one field under tag1 decoded from a list that also has myname
C26_Witness ==
    /\ fields = <<Field("tag1", <<>>, StringTy)>>
    /\ tags = <<RawTag("myname", "B"), RawTag("tag1", "A")>>
    /\ decoded = Some(Ok(<<"A">>))
    /\ encoded = Some(<<RawTag("tag1", "A")>>)

\* a required field missing from a list that has only an unknown key
C26_WitnessError ==
    /\ fields = <<Field("tag1", <<>>, StringTy)>>
    /\ tags = <<RawTag("myname", "B")>>
    /\ decoded = Some(Err(TagNotFound("tag1")))

\* the keys that two or more fields are bound to
SharedKeys == {KeyOf(i) : i \in {j \in FieldIndexes : KeyIsShared(j)}}

\* the fields bound to the key, and those of them the record writes
FieldsUnder(key) == {i \in FieldIndexes : KeyOf(i) = key}
WrittenUnder(record, key) == Written(record) \cap FieldsUnder(key)

\* the places of the list's entries under the key
EntriesUnder(list, key) == {n \in 1..Len(list) : list[n].key = key}

\* the n-th smallest member of a set of numbers
Nth(S, n) == CHOOSE x \in S : Cardinality({y \in S : y <= x}) = n

\* what field i of the record is encoded to
EncodedValue(record, i) == into_raw_tag(TypeOf(i), ValueOf(record, i))

\* C27 as stated: under a key that two fields are bound to, into_tags emits
\* one entry per field, and from_tags of that output gives both fields the
\* decoded value of the first of those entries
C27_SharedKeyFields ==
    (IsSome(self) /\ IsSome(encoded)) =>
        \A key \in SharedKeys :
            LET out == Unwrap(encoded)
            IN  /\ Cardinality(EntriesUnder(out, key)) =
                       Cardinality(FieldsUnder(key))
                /\ (IsSome(redecoded) /\ IsOk(Unwrap(redecoded))) =>
                      \A i \in FieldsUnder(key) :
                          Unwrap(redecoded)[2][i] = DecodedField(out, i)

\* C27: under a key that two fields are bound to, into_tags emits one entry
\* for each of them that is written (required, or optional with a value), in
\* schema order, and from_tags of that output looks every such field up in
\* the first of those entries, the encoding of the first written field: the
\* field gets that value decoded, or from_tags fails with the ParseTag error
\* of the key when the field's codec rejects it
C27_SharedKeyWrittenFields ==
    (IsSome(self) /\ IsSome(encoded)) =>
        \A key \in SharedKeys :
            LET out == Unwrap(encoded)
                record == Unwrap(self)
                written == WrittenUnder(record, key)
                places == EntriesUnder(out, key)
            IN  /\ Cardinality(places) = Cardinality(written)
                /\ \A n \in 1..Cardinality(written) :
                      out[Nth(places, n)] =
                          RawTag(key, EncodedValue(record, Nth(written, n)))
                /\ IsSome(redecoded) =>
                      LET result == Unwrap(redecoded)
                      IN  \A i \in FieldsUnder(key) :
                              IF written = {}
                              THEN IsOk(result) => result[2][i] = None
                              ELSE LET r == from_raw_tag(TypeOf(i),
                                                EncodedValue(record, Nth(written, 1)))
                                   IN  /\ IsOk(result) =>
                                             /\ IsOk(r)
                                             /\ result[2][i] =
                                                    IF IsRequired(i)
                                                    THEN r[2]
                                                    ELSE Some(r[2])
                                       /\ (IsErr(r) /\ ReachesField(out, i)) =>
                                             result = Err(ParseTag(
                                                 InvalidTagValue(key, r[2])))

\* two string fields under myname: both entries persist and the second field
\* comes back with the first field's value
C27_Witness ==
    /\ fields = <<Field("tag1", <<"myname">>, StringTy),
                  Field("tag2", <<"myname">>, StringTy)>>
    /\ self = Some(<<"A", "test">>)
    /\ encoded = Some(<<RawTag("myname", "A"), RawTag("myname", "test")>>)
    /\ redecoded = Some(Ok(<<"A", "A">>))

\* an absent optional field before a string field under the same key: one
\* entry, and the first field comes back with the second field's value
C27_WitnessAbsentOptional ==
    /\ fields = <<Field("tag1", <<"myname">>, OptionTy(StringTy)),
                  Field("tag2", <<"myname">>, StringTy)>>
    /\ self = Some(<<None, "A">>)
    /\ encoded = Some(<<RawTag("myname", "A")>>)
    /\ redecoded = Some(Ok(<<Some("A"), "A">>))

\* a string field before a bool field under the same key: the bool field is
\* decoded from the string field's value and from_tags fails
C27_WitnessRejected ==
    /\ fields = <<Field("tag1", <<"myname">>, StringTy),
                  Field("tag2", <<"myname">>, BoolTy)>>
    /\ self = Some(<<"A", TRUE>>)
    /\ encoded = Some(<<RawTag("myname", "A"), RawTag("myname", "true")>>)
    /\ redecoded = Some(Err(ParseTag(InvalidTagValue("myname",
                       InvalidValue("A", "invalid tag bool value \"A\"")))))

----------------------------------------------------------------------------
(* Claims about one TagList (SpecList) *)

\* the places of the list whose entry has exactly this key
PlacesOf(key) == {n \in 1..Len(tagList) : tagList[n].key = key}

\* C17: get(key) returns the first entry in list order whose key is exactly
\* key, the earliest of several entries with that key, None when there is no
\* such entry, and leaves the list as it was
C17_GetFirstMatch ==
    call = "get" =>
        /\ tagList = before
        /\ PlacesOf(asked) = {} <=> got = None
        /\ PlacesOf(asked) /= {} =>
              \E n \in PlacesOf(asked) :
                  /\ got = Some(tagList[n])
                  /\ \A m \in PlacesOf(asked) : n <= m

\* "name" comes before two entries for "Name": get("Name") is the first of the two
C17_Witness ==
    /\ call = "get"
    /\ tagList = <<RawTag("name", "a"), RawTag("Name", "b"), RawTag("Name", "a")>>
    /\ asked = "Name"
    /\ got = Some(RawTag("Name", "b"))

\* C18: after every push, extend and join the list is what it was before
\* followed by the entries of the call, so the earlier entries keep their
\* places, the length grows by the number of entries supplied and an entry
\* whose key is already in the list is kept; after any sequence of calls the
\* list is the initial contents followed by every supplied entry in call order
C18_AppendOnly ==
    /\ tagList = initial \o supplied
    /\ call \in {"push", "extend", "join"} =>
          /\ tagList = before \o args
          /\ Len(tagList) = Len(before) + Len(args)
          /\ \A n \in 1..Len(before) : tagList[n] = before[n]

\* an extend that brings a second and a third entry for a key the list has
C18_Witness ==
    /\ call = "extend"
    /\ before = <<RawTag("Name", "a")>>
    /\ args = <<RawTag("Name", "b"), RawTag("Name", "a")>>
    /\ tagList = <<RawTag("Name", "a"), RawTag("Name", "b"), RawTag("Name", "a")>>

----------------------------------------------------------------------------
(* Claims about vendor tags (SpecSvc) *)

OptionalVendor == svc \in {"ec2", "cloudformation"}

\* C23: for an EC2 or CloudFormation tag, RawTag::try_from fails with
\* AwsKeyNone when the key is missing, the value missing or not, fails with
\* AwsValueNone of the key when only the value is missing, and is otherwise
\* the RawTag of exactly that key and value
C23_VendorAbsence ==
    (OptionalVendor /\ IsSome(awsTag)) =>
        LET t == Unwrap(awsTag)
            r == Unwrap(rawTagResult)
        IN  /\ t.key = None => r = Err(Aws(AwsKeyNone))
            /\ (t.key /= None /\ t.value = None) =>
                  r = Err(Aws(AwsValueNone(t.key[2])))
            /\ (t.key /= None /\ t.value /= None) =>
                  r = Ok([key |-> t.key[2], value |-> t.value[2]])

\* an EC2 tag "Name" without a value
C23_Witness ==
    /\ svc = "ec2"
    /\ awsTag = Some(AwsTag(Some("Name"), None))
    /\ rawTagResult = Some(Err(Aws(AwsValueNone("Name"))))

\* a CloudFormation tag without key and value
C23_WitnessBothMissing ==
    /\ svc = "cloudformation"
    /\ awsTag = Some(AwsTag(None, None))
    /\ rawTagResult = Some(Err(Aws(AwsKeyNone)))

\* the elements of the vendor list that lack their key or their value
Lacking == {i \in 1..Len(awsTags) : awsTags[i].key = None \/ awsTags[i].value = None}

\* the absence error of element i
AbsenceOf(i) ==
    IF awsTags[i].key = None THEN AwsKeyNone ELSE AwsValueNone(awsTags[i].key[2])

\* C28: TagList::try_from of an EC2 or CloudFormation list is, when no element
\* lacks its key or value, the TagList of the same pairs in the same order,
\* and otherwise an error and no TagList: ParseTag of the absence error of the
\* first lacking element; for an EFS list it is always the TagList of the
\* same pairs in the same order
C28_VendorListConversion ==
    IsSome(tagListResult) =>
        LET r == Unwrap(tagListResult)
        IN  IF OptionalVendor
            THEN IF Lacking = {}
                 THEN /\ IsOk(r)
                      /\ Len(r[2]) = Len(awsTags)
                      /\ \A i \in 1..Len(awsTags) :
                            r[2][i] = [key |-> awsTags[i].key[2],
                                       value |-> awsTags[i].value[2]]
                 ELSE \E i \in Lacking :
                          /\ \A j \in Lacking : i <= j
                          /\ r = Err(ParseTag(Aws(AbsenceOf(i))))
            ELSE /\ IsOk(r)
                 /\ Len(r[2]) = Len(awsTags)
                 /\ \A i \in 1..Len(awsTags) :
                       r[2][i] = [key |-> awsTags[i].key, value |-> awsTags[i].value]

\* two lacking elements: the error is the first one's
C28_Witness ==
    /\ svc = "ec2"
    /\ awsTags = <<AwsTag(Some("env"), None), AwsTag(None, Some("a"))>>
    /\ tagListResult = Some(Err(ParseTag(Aws(AwsValueNone("env")))))

----------------------------------------------------------------------------
(* Claims about Eip::set_tags (SpecEip) *)

\* the places of an event in the log
PlacesInLog(event) == {n \in 1..Len(eipLog) : eipLog[n] = event}

\* C29: delete_tags is sent and answered before create_tags is sent; when
\* delete_tags fails set_tags returns that error and create_tags is never
\* sent; when delete_tags succeeds and create_tags fails set_tags returns an
\* error and the address holds neither its previous tags nor the new ones
C29_SetTagsOrdering ==
    /\ \A c \in PlacesInLog(Sent("create_tags")) :
          \E s \in PlacesInLog(Sent("delete_tags")),
             d \in PlacesInLog(<<"ok", "delete_tags">>) : s < d /\ d < c
    /\ eipPc /= "idle" => PlacesInLog(Sent("delete_tags")) = {1}
    /\ PlacesInLog(<<"err", "delete_tags">>) /= {} =>
          /\ eipPc = "returned"
          /\ eipResult = Some(Err(SdkError("delete_tags")))
          /\ PlacesInLog(Sent("create_tags")) = {}
    /\ PlacesInLog(<<"err", "create_tags">>) /= {} =>
          /\ PlacesInLog(<<"ok", "delete_tags">>) /= {}
          /\ eipPc = "returned"
          /\ eipResult = Some(Err(SdkError("create_tags")))
          /\ eipTags = <<>>
    /\ eipPc = "returned" =>
          /\ IsSome(eipResult)
          /\ IsOk(Unwrap(eipResult)) <=>
                 PlacesInLog(<<"ok", "create_tags">>) /= {}

\* create_tags failed after delete_tags removed the tag of the address
C29_Witness ==
    /\ eipBefore = <<AwsTag(Some("Name"), Some("a"))>>
    /\ eipArg = <<RawTag("Name", "b"), RawTag("env", "a")>>
    /\ eipLog = <<Sent("delete_tags"), <<"ok", "delete_tags">>,
                  Sent("create_tags"), <<"err", "create_tags">>>>
    /\ eipResult = Some(Err(SdkError("create_tags")))
    /\ eipTags = <<>>

\* delete_tags failed: the call is over and the address keeps its tag
C29_WitnessDeleteFails ==
    /\ eipBefore = <<AwsTag(Some("Name"), Some("a"))>>
    /\ eipLog = <<Sent("delete_tags"), <<"err", "delete_tags">>>>
    /\ eipResult = Some(Err(SdkError("delete_tags")))
    /\ eipTags = eipBefore

----------------------------------------------------------------------------
(* Claims about find_efs (SpecEfs) *)

\* the listed file systems that carry a tag with the wanted key and value
Matches ==
    {n \in 1..Len(fileSystems) :
        \E m \in 1..Len(fileSystems[n].tags) :
            /\ fileSystems[n].tags[m].key = Unwrap(wanted).key
            /\ fileSystems[n].tags[m].value = Unwrap(wanted).value}

\* C30: over the listed file systems, find_efs returns Ok(None) when none
\* carries a tag with the key and the value of the given raw tag, Ok(Some) of
\* the file system when exactly one does, and the MultipleMatches error, and
\* no file system, when two or more do
C30_FindEfsByMatchCount ==
    (IsSome(efsResult) /\ efsListed = Some(Ok(fileSystems))) =>
        /\ Cardinality(Matches) = 0 => efsResult = Some(Ok(None))
        /\ Cardinality(Matches) = 1 =>
              efsResult = Some(Ok(Some(Efs(
                  EfsId(fileSystems[CHOOSE n \in Matches : TRUE].file_system_id),
                  efsRegion))))
        /\ Cardinality(Matches) >= 2 =>
              efsResult = Some(Err(MultipleMatches("efs")))

\* two file systems carry Name=a, the second next to another tag
C30_Witness ==
    /\ wanted = Some(RawTag("Name", "a"))
    /\ fileSystems = <<FileSystemDescription("fs-1", <<AwsTag("Name", "a")>>),
                       FileSystemDescription("fs-2", <<AwsTag("env", "a"),
                                                       AwsTag("Name", "a")>>)>>
    /\ efsResult = Some(Err(MultipleMatches("efs")))

\* the second of two file systems is the one with env=a
C30_WitnessOne ==
    /\ wanted = Some(RawTag("env", "a"))
    /\ efsRegion = "EuCentral1"
    /\ fileSystems = <<FileSystemDescription("fs-1", <<AwsTag("Name", "a")>>),
                       FileSystemDescription("fs-2", <<AwsTag("env", "a")>>)>>
    /\ efsResult = Some(Ok(Some(Efs(EfsId("fs-2"), "EuCentral1"))))

\* the key is there with another value: no match
C30_WitnessNone ==
    /\ wanted = Some(RawTag("env", "b"))
    /\ fileSystems = <<FileSystemDescription("fs-1", <<AwsTag("env", "a")>>)>>
    /\ efsResult = Some(Ok(None))

====
